---- MODULE Spec2Model ----
(***************************************************************************)
(* A model of pymaestro's maestro.usc package: the Usc session object      *)
(* (main.py), the request / parameter tables (protocol.py) and the         *)
(* settings records (settings.py).  Every call of dev.ctrl_transfer is     *)
(* recorded, in order, in the variable transfers.                          *)
(***************************************************************************)
EXTENDS Integers, Sequences, FiniteSets, TLC

VARIABLES
    servoCount,   \* Usc.servoCount, fixed by the product id at construction
    params,       \* the device's parameter store: parameter id -> raw value
    transfers,    \* the control transfers the current operation has issued
    slept,        \* milliseconds spent in time.sleep by the current operation
    pc,           \* "idle" before a call, "done" once the call has ended
    op,           \* the method that was called
    arg,          \* its argument(s)
    result,       \* its return value (NoValue when it raised or returns None)
    err           \* the exception it raised, "none" when it returned

vars == <<servoCount, params, transfers, slept, pc, op, arg, result, err>>

NoValue == [none |-> TRUE]

----------------------------------------------------------------------------
(* Bounds of the model.                                                    *)

\* normalSpeed arguments are drawn from 0..MaxNormalSpeed
MaxNormalSpeed == 8200
\* channel arguments of _channelToPort are drawn from 0..MaxChannel
MaxChannel == 9
\* writeScript is called with byte sequences of 0..MaxWriteLength bytes
MaxWriteLength == 40
\* loadProgram is called with programs whose length is within ScriptSlack
\* bytes of maxScriptLength, on either side (and with short ones)
ScriptSlack == 2
\* a program has at most MaxSubroutines subroutines
MaxSubroutines == 2
\* setUscSettings is called with servoCount - ChannelSlack to
\* servoCount + ChannelSlack channel settings
ChannelSlack == 1
\* getRange is called with the parameter ids 0 .. MaxParameterId
MaxParameterId == 260
\* the baud rates 0 .. MaxLowBps are converted, and some higher ones
MaxLowBps == 40
\* the register values 0 .. MaxLowSpbrg are converted, and some higher ones
MaxLowSpbrg == 40
\* the device answers a read with up to ReadSlack bytes fewer or more than
\* were asked for
ReadSlack == 1
\* specifyServo is called for the channels 0 .. MaxServo
MaxServo == 25

----------------------------------------------------------------------------
(* Python's integer operators.                                             *)

Pow2(n) == 2 ^ n

\* x >> n (an arithmetic shift: it floors, as \div does)
ShiftRight(x, n) == x \div Pow2(n)

\* x << n
ShiftLeft(x, n) == x * Pow2(n)

RECURSIVE BitAnd(_, _)
\* a & b, for a, b >= 0
BitAnd(a, b) ==
    IF a = 0 \/ b = 0 THEN 0
    ELSE (a % 2) * (b % 2) + 2 * BitAnd(a \div 2, b \div 2)

RECURSIVE BitOr(_, _)
\* a | b, for a, b >= 0
BitOr(a, b) ==
    IF a = 0 THEN b
    ELSE IF b = 0 THEN a
    ELSE (IF a % 2 = 1 \/ b % 2 = 1 THEN 1 ELSE 0) + 2 * BitOr(a \div 2, b \div 2)

\* int(a / b) for b > 0: true division, then truncation towards zero
TruncDiv(a, b) == IF a >= 0 THEN a \div b ELSE -((-a) \div b)

----------------------------------------------------------------------------
(* protocol.py                                                             *)

REQUEST_GET_PARAMETER == 129
REQUEST_SET_PARAMETER == 130
REQUEST_GET_VARIABLES == 131
REQUEST_GET_SERVO_SETTINGS == 135
REQUEST_GET_STACK == 136
REQUEST_GET_CALL_STACK == 137
REQUEST_REINITIALIZE == 144
REQUEST_RESTART_SCRIPT_AT_SUBROUTINE == 163
REQUEST_RESTART_SCRIPT_AT_SUBROUTINE_WITH_PARAMETER == 164
REQUEST_ERASE_SCRIPT == 160
REQUEST_WRITE_SCRIPT == 161
REQUEST_SET_SCRIPT_DONE == 162

\* class ChannelMode
Servo == 0
ServoMultiplied == 1
Output == 2
Input == 3

\* class HomeMode
Off == 0
Ignore == 1
Goto == 2

----------------------------------------------------------------------------
(* Usc: the static conversions.                                            *)

\* the decoder with mantissa and exponent read from the wrong ends of the byte
ExponentialSpeedToNormalSpeedSwapped(exponentialSpeed) ==
    LET mantissa == BitAnd(exponentialSpeed, 31)
        exponent == ShiftRight(exponentialSpeed, 5)
    IN  mantissa * ShiftLeft(1, exponent)

\* Usc._exponentialSpeedToNormalSpeed
ExponentialSpeedToNormalSpeed(exponentialSpeed) ==
    LET mantissa == ShiftRight(exponentialSpeed, 3)
        exponent == BitAnd(exponentialSpeed, 7)
    IN  mantissa * ShiftLeft(1, exponent)

RECURSIVE SpeedLoopWrong(_, _, _)
\* the loop with the saturation test (exponent == 7) taken before the
\* mantissa test
SpeedLoopWrong(mantissa, exponent, iterations) ==
    IF exponent = 7
    THEN [value |-> 255, iterations |-> iterations]
    ELSE IF mantissa < 32
    THEN [value |-> exponent + ShiftLeft(mantissa, 3), iterations |-> iterations]
    ELSE SpeedLoopWrong(ShiftRight(mantissa, 1), exponent + 1, iterations + 1)

RECURSIVE SpeedLoop(_, _, _)
\* one pass of the "while True" loop of _normalSpeedToExponentialSpeed;
\* iterations counts the passes, this one included
SpeedLoop(mantissa, exponent, iterations) ==
    IF mantissa < 32
    THEN [value |-> exponent + ShiftLeft(mantissa, 3), iterations |-> iterations]
    ELSE IF exponent = 7
    THEN [value |-> 255, iterations |-> iterations]
    ELSE SpeedLoop(ShiftRight(mantissa, 1), exponent + 1, iterations + 1)

\* Usc._normalSpeedToExponentialSpeed
NormalSpeedToExponentialSpeed(normalSpeed) == SpeedLoop(normalSpeed, 0, 1)

\* _channelToPort without the skip over the reserved ports
ChannelToPortNoSkip(channel) ==
    IF channel < 6
    THEN [port |-> channel, err |-> "none"]
    ELSE [port |-> NoValue, err |-> "InvalidChannel"]

\* Usc._channelToPort
ChannelToPort(channel) ==
    IF channel <= 3
    THEN [port |-> channel, err |-> "none"]
    ELSE IF channel < 6
    THEN [port |-> channel + 2, err |-> "none"]
    ELSE [port |-> NoValue, err |-> "InvalidChannel"]

----------------------------------------------------------------------------
(* Usc.__init__                                                            *)

\* the servo counts of the four product ids
ServoCounts == {6, 12, 18, 24}

\* self.microMaestro
microMaestro == servoCount = 6

\* the device's parameter store before the session, when erased
ErasedStore == [p \in 0 .. 255 |-> 65535]

RECURSIVE ParameterWrites(_, _, _)
\* the parameters the transfers lo .. hi of a list leave written, each with
\* the value of its last write: SET_PARAMETER stores wValue in the
\* parameter named by the low byte of wIndex
ParameterWrites(issued, lo, hi) ==
    IF lo > hi THEN << >>
    ELSE IF lo = hi
    THEN IF issued[lo].bRequest = REQUEST_SET_PARAMETER
         THEN (issued[lo].wIndex % 256) :> issued[lo].wValue
         ELSE << >>
    ELSE ParameterWrites(issued, ((lo + hi) \div 2) + 1, hi)
         @@ ParameterWrites(issued, lo, (lo + hi) \div 2)

\* the parameter store after a list of transfers
DeviceAfter(store, issued) ==
    ParameterWrites(issued, 1, Len(issued)) @@ store

----------------------------------------------------------------------------
(* The static conversions, called on their own.                            *)

Init ==
    /\ servoCount \in ServoCounts
    /\ params = ErasedStore
    /\ transfers = <<>>
    /\ slept = 0
    /\ pc = "idle"
    /\ op = "none"
    /\ arg = NoValue
    /\ result = NoValue
    /\ err = "none"

\* a call of _normalSpeedToExponentialSpeed(normalSpeed)
CallNormalSpeedToExponentialSpeed ==
    /\ pc = "idle"
    /\ \E normalSpeed \in 0 .. MaxNormalSpeed :
          /\ arg' = [normalSpeed |-> normalSpeed]
          /\ result' = NormalSpeedToExponentialSpeed(normalSpeed)
    /\ op' = "normalSpeedToExponentialSpeed"
    /\ pc' = "done"
    /\ UNCHANGED <<servoCount, params, transfers, slept, err>>

\* a call of _exponentialSpeedToNormalSpeed(exponentialSpeed) on a raw byte
CallExponentialSpeedToNormalSpeed ==
    /\ pc = "idle"
    /\ \E exponentialSpeed \in 0 .. 255 :
          /\ arg' = [exponentialSpeed |-> exponentialSpeed]
          /\ result' = ExponentialSpeedToNormalSpeed(exponentialSpeed)
    /\ op' = "exponentialSpeedToNormalSpeed"
    /\ pc' = "done"
    /\ UNCHANGED <<servoCount, params, transfers, slept, err>>

\* _exponentialSpeedToNormalSpeed applied to the byte the encoder returned
DecodeEncodedSpeed ==
    /\ pc = "done"
    /\ op = "normalSpeedToExponentialSpeed"
    /\ arg' = [normalSpeed |-> arg.normalSpeed, exponentialSpeed |-> result.value]
    /\ result' = ExponentialSpeedToNormalSpeed(result.value)
    /\ op' = "speedRoundTrip"
    /\ UNCHANGED <<servoCount, params, transfers, slept, pc, err>>

\* a call of _channelToPort(channel)
CallChannelToPort ==
    /\ pc = "idle"
    /\ \E channel \in 0 .. MaxChannel :
          /\ arg' = [channel |-> channel]
          /\ result' = ChannelToPort(channel).port
          /\ err' = ChannelToPort(channel).err
    /\ op' = "channelToPort"
    /\ pc' = "done"
    /\ UNCHANGED <<servoCount, params, transfers, slept>>

NextCodec ==
    \/ CallNormalSpeedToExponentialSpeed
    \/ CallExponentialSpeedToNormalSpeed
    \/ DecodeEncodedSpeed
    \/ CallChannelToPort

SpecCodec == Init /\ [][NextCodec]_vars

----------------------------------------------------------------------------
(* C8 - C10: the static conversions.                                       *)

\* the exponents 0..7 whose shifted speed fits the five mantissa bits
FittingExponents(v) == {e \in 0 .. 7 : v \div Pow2(e) < 32}

SmallestFitting(v) ==
    CHOOSE e \in FittingExponents(v) : \A f \in FittingExponents(v) : e <= f

\* C8: for every normal speed v >= 0, _normalSpeedToExponentialSpeed returns
\* e + ((v >> e) << 3) for the smallest exponent e in 0..7 with (v >> e) < 32,
\* and 0xFF when there is none, which is exactly when v >= 4096; the result
\* is a byte, and the loop runs at most 8 times.
C8_SpeedEncoding ==
    (pc = "done" /\ op = "normalSpeedToExponentialSpeed") =>
        LET v == arg.normalSpeed
        IN  /\ FittingExponents(v) # {} =>
                result.value = SmallestFitting(v) + (v \div Pow2(SmallestFitting(v))) * 8
            /\ FittingExponents(v) = {} => result.value = 255
            /\ (FittingExponents(v) = {}) <=> (v >= 4096)
            /\ result.value \in 0 .. 255
            /\ result.iterations <= 8

C8_Witness ==
    /\ pc = "done"
    /\ op = "normalSpeedToExponentialSpeed"
    /\ arg.normalSpeed = 4096
    /\ result.value = 255
    /\ result.iterations = 8

\* v = m * 2^k for a mantissa m in 0..31 and an exponent k in 0..7
ExactSpeed(v) == \E m \in 0 .. 31, k \in 0 .. 7 : v = m * Pow2(k)

\* C9 as claimed: for every v in [0, 8000), the decoded value d of the encoded
\* v has d <= v and v - d < 2^e, e the exponent stored in the encoded byte,
\* and d = v when v is exact.
C9_RoundTripAsClaimed ==
    (pc = "done" /\ op = "speedRoundTrip" /\ arg.normalSpeed < 8000) =>
        LET v == arg.normalSpeed
            e == arg.exponentialSpeed % 8
            d == result
        IN  /\ d <= v
            /\ v - d < Pow2(e)
            /\ ExactSpeed(v) => d = v

\* C9 amended: d <= v for every v in [0, 8000), and d = v when v is exact;
\* v - d < 2^e holds for v in [0, 4096), and from 4096 on the encoder
\* saturates at 0xFF, which decodes to 3968.
C9_RoundTrip ==
    (pc = "done" /\ op = "speedRoundTrip" /\ arg.normalSpeed < 8000) =>
        LET v == arg.normalSpeed
            e == arg.exponentialSpeed % 8
            d == result
        IN  /\ d <= v
            /\ v < 4096 => v - d < Pow2(e)
            /\ v >= 4096 => d = 3968
            /\ ExactSpeed(v) => d = v

C9_Witness ==
    /\ pc = "done"
    /\ op = "speedRoundTrip"
    /\ arg.normalSpeed = 4097
    /\ arg.exponentialSpeed = 255
    /\ result = 3968

\* C10: _channelToPort maps channels 0..3 to ports 0..3 and channels 4, 5 to
\* ports 6, 7; it is injective on 0..5, never returns port 4 or 5, and raises
\* for every channel >= 6.
C10_ChannelToPort ==
    (pc = "done" /\ op = "channelToPort") =>
        LET c == arg.channel
        IN  /\ c \in 0 .. 3 => (err = "none" /\ result = c)
            /\ c \in 4 .. 5 => (err = "none" /\ result = c + 2)
            /\ c >= 6 => (err = "InvalidChannel" /\ result = NoValue)
            /\ c \in 0 .. 5 =>
                  /\ result \notin {4, 5}
                  /\ \A c2 \in (0 .. 5) \ {c} : ChannelToPort(c2).port # result

C10_Witness ==
    /\ pc = "done"
    /\ op = "channelToPort"
    /\ arg.channel = 5
    /\ result = 7

----------------------------------------------------------------------------
(* The parameter table and the raw parameter writes.                       *)

PARAMETER_INITIALIZED == 0
PARAMETER_SERVOS_AVAILABLE == 1
PARAMETER_SERVO_PERIOD == 2
PARAMETER_SERIAL_MODE == 3
PARAMETER_SERIAL_FIXED_BAUD_RATE == 4
PARAMETER_SERIAL_TIMEOUT == 6
PARAMETER_SERIAL_ENABLE_CRC == 8
PARAMETER_SERIAL_NEVER_SUSPEND == 9
PARAMETER_SERIAL_DEVICE_NUMBER == 10
PARAMETER_SERIAL_BAUD_DETECT_TYPE == 11
PARAMETER_IO_MASK_C == 16
PARAMETER_OUTPUT_MASK_C == 17
PARAMETER_CHANNEL_MODES_0_3 == 12
PARAMETER_CHANNEL_MODES_4_7 == 13
PARAMETER_CHANNEL_MODES_8_11 == 14
PARAMETER_CHANNEL_MODES_12_15 == 15
PARAMETER_CHANNEL_MODES_16_19 == 16
PARAMETER_CHANNEL_MODES_20_23 == 17
PARAMETER_MINI_MAESTRO_SERVO_PERIOD_L == 18
PARAMETER_MINI_MAESTRO_SERVO_PERIOD_HU == 19
PARAMETER_ENABLE_PULLUPS == 21
PARAMETER_SCRIPT_CRC == 22
PARAMETER_SCRIPT_DONE == 24
PARAMETER_SERIAL_MINI_SSC_OFFSET == 25
PARAMETER_SERVO_MULTIPLIER == 26
PARAMETER_SERVO0_HOME == 30
PARAMETER_SERVO0_MIN == 32
PARAMETER_SERVO0_MAX == 33
PARAMETER_SERVO0_NEUTRAL == 34
PARAMETER_SERVO0_RANGE == 36
PARAMETER_SERVO0_SPEED == 37
PARAMETER_SERVO0_ACCELERATION == 38

\* Usc.servoParameterBytes
servoParameterBytes == 9

\* class Range
Range(numBytes, minimumValue, maximumValue) ==
    [bytes |-> numBytes, minimumValue |-> minimumValue,
     maximumValue |-> maximumValue, err |-> "none"]

u16 == Range(2, 0, 65535)
u8 == Range(1, 0, 255)
u7 == Range(1, 0, 127)
boolean == Range(1, 0, 1)

\* specifyServo with eight parameter slots for each channel
specifyServoEightSlots(p, servo) == p + servo * 8

\* Usc.specifyServo
specifyServo(p, servo) == p + servo * servoParameterBytes

\* Usc.getRange; err is "UnknownParameter" where the code raises
getRange(parameterId) ==
    IF parameterId \in {PARAMETER_INITIALIZED,
                        PARAMETER_SERVOS_AVAILABLE,
                        PARAMETER_SERVO_PERIOD,
                        PARAMETER_MINI_MAESTRO_SERVO_PERIOD_L,
                        PARAMETER_SERVO_MULTIPLIER,
                        PARAMETER_CHANNEL_MODES_0_3,
                        PARAMETER_CHANNEL_MODES_4_7,
                        PARAMETER_CHANNEL_MODES_8_11,
                        PARAMETER_CHANNEL_MODES_12_15,
                        PARAMETER_CHANNEL_MODES_16_19,
                        PARAMETER_CHANNEL_MODES_20_23,
                        PARAMETER_ENABLE_PULLUPS}
    THEN u8
    ELSE IF parameterId \in {PARAMETER_MINI_MAESTRO_SERVO_PERIOD_HU,
                             PARAMETER_SERIAL_TIMEOUT,
                             PARAMETER_SERIAL_FIXED_BAUD_RATE,
                             PARAMETER_SCRIPT_CRC}
    THEN u16
    ELSE IF parameterId \in {PARAMETER_SERIAL_NEVER_SUSPEND,
                             PARAMETER_SERIAL_ENABLE_CRC,
                             PARAMETER_SCRIPT_DONE}
    THEN boolean
    ELSE IF parameterId = PARAMETER_SERIAL_DEVICE_NUMBER
    THEN u7
    ELSE IF parameterId = PARAMETER_SERIAL_MODE
    THEN Range(1, 0, 3)
    ELSE IF parameterId = PARAMETER_SERIAL_BAUD_DETECT_TYPE
    THEN Range(1, 0, 1)
    ELSE IF parameterId = PARAMETER_SERIAL_MINI_SSC_OFFSET
    THEN Range(1, 0, 254)
    ELSE LET servoParameter ==
                 ((parameterId - PARAMETER_SERVO0_HOME) % 9) + PARAMETER_SERVO0_HOME
         IN  IF servoParameter \in {PARAMETER_SERVO0_SPEED,
                                    PARAMETER_SERVO0_MAX,
                                    PARAMETER_SERVO0_MIN,
                                    PARAMETER_SERVO0_ACCELERATION}
             THEN u8
             ELSE IF servoParameter \in {PARAMETER_SERVO0_HOME,
                                         PARAMETER_SERVO0_NEUTRAL}
             THEN Range(2, 0, 32440)
             ELSE IF servoParameter = PARAMETER_SERVO0_RANGE
             THEN Range(1, 1, 50)
             ELSE [bytes |-> 0, minimumValue |-> 0, maximumValue |-> 0,
                   err |-> "UnknownParameter"]

\* Usc.requireArgumentRange: TRUE where the code raises
requireArgumentRange(argumentValue, minimum, maximum) ==
    argumentValue < minimum \/ argumentValue > maximum

\* dev.ctrl_transfer(0x40, request, value, index, data)
TransferOut(request, value, index, data) ==
    [bmRequestType |-> 64, bRequest |-> request, wValue |-> value,
     wIndex |-> index, data |-> data, wLength |-> Len(data), received |-> 0]

\* dev.ctrl_transfer(0xC0, request, value, index, length), to which the
\* device answers with a buffer of received bytes
TransferIn(request, value, index, length, received) ==
    [bmRequestType |-> 192, bRequest |-> request, wValue |-> value,
     wIndex |-> index, data |-> <<>>, wLength |-> length, received |-> received]

\* Usc._setRawParameterNoChecks
SetRawParameterNoChecks(parameter, value, numBytes) ==
    TransferOut(REQUEST_SET_PARAMETER, value, ShiftLeft(numBytes, 8) + parameter, <<>>)

\* Usc._setRawParameter: the transfers it issues and the exception it raises
SetRawParameter(parameter, value) ==
    LET parameterRange == getRange(parameter)
    IN  IF parameterRange.err # "none"
        THEN [transfers |-> <<>>, err |-> parameterRange.err]
        ELSE IF requireArgumentRange(value, parameterRange.minimumValue,
                                     parameterRange.maximumValue)
        THEN [transfers |-> <<>>, err |-> "OutOfRange"]
        ELSE [transfers |-> <<SetRawParameterNoChecks(parameter, value,
                                                     parameterRange.bytes)>>,
              err |-> "none"]

----------------------------------------------------------------------------
(* The script upload.                                                      *)

\* Opcode.QUIT and Opcode.CALL of maestro.bytecode
Opcode_QUIT == 0
Opcode_CALL == 54

\* self.subroutineOffsetBlocks
subroutineOffsetBlocks == IF ~microMaestro THEN 512 ELSE 64

\* self.maxScriptLength
maxScriptLength == IF ~microMaestro THEN 8192 ELSE 1024

\* struct.Struct('<BBHHBB').size of MiniMaestroVariables
MiniMaestroVariablesSize == 8

\* Usc.eraseScript
EraseScript == <<TransferOut(REQUEST_ERASE_SCRIPT, 0, 0, <<>>)>>

\* Usc.setScriptDone
SetScriptDone(value) == <<TransferOut(REQUEST_SET_SCRIPT_DONE, value, 0, <<>>)>>

\* writeScript with the last, partly filled block left out
WriteScriptFullBlocksOnly(bytecode) ==
    [b \in 1 .. (Len(bytecode) \div 16) |->
        TransferOut(REQUEST_WRITE_SCRIPT, 0, b - 1,
                    [j \in 1 .. 16 |-> bytecode[(b - 1) * 16 + j]])]

\* Usc.writeScript: one transfer per block; block and j are b - 1 and j - 1
WriteScript(bytecode) ==
    [b \in 1 .. ((Len(bytecode) + 15) \div 16) |->
        TransferOut(REQUEST_WRITE_SCRIPT, 0, b - 1,
                    [j \in 1 .. 16 |->
                        IF (b - 1) * 16 + (j - 1) < Len(bytecode)
                        THEN bytecode[(b - 1) * 16 + j]
                        ELSE 255])]

RECURSIVE SubroutineData(_, _, _, _)
\* the first loop of setSubroutines, from the k-th item of the dictionary
\* on; subroutineData[n] of the code is data[n + 1] here
SubroutineData(items, subroutineCommands, data, k) ==
    IF k > Len(items) THEN data
    ELSE LET name == items[k][1]
             value == items[k][2]
             bytecode == subroutineCommands[name]
         IN  IF bytecode = Opcode_CALL
             THEN SubroutineData(items, subroutineCommands, data, k + 1)
             ELSE SubroutineData(items, subroutineCommands,
                     [data EXCEPT ![2 * (bytecode - 128) + 1] = value % 256,
                                  ![2 * (bytecode - 128) + 2] = ShiftRight(value, 8)],
                     k + 1)

\* setSubroutines with the two address bytes stored high byte first
SetSubroutinesBigEndian(subroutineAddresses, subroutineCommands) ==
    LET le == SubroutineData(subroutineAddresses, subroutineCommands,
                             [n \in 1 .. 256 |-> 255], 1)
        subroutineData == [n \in 1 .. 256 |->
                              IF n % 2 = 1 THEN le[n + 1] ELSE le[n - 1]]
    IN  [b \in 1 .. 16 |->
            TransferOut(REQUEST_WRITE_SCRIPT, 0, (b - 1) + subroutineOffsetBlocks,
                        [j \in 1 .. 16 |-> subroutineData[(b - 1) * 16 + j]])]

\* setSubroutines writing the table from block 0 on
SetSubroutinesFromBlockZero(subroutineAddresses, subroutineCommands) ==
    LET subroutineData == SubroutineData(subroutineAddresses, subroutineCommands,
                                         [n \in 1 .. 256 |-> 255], 1)
    IN  [b \in 1 .. 16 |->
            TransferOut(REQUEST_WRITE_SCRIPT, 0, b - 1,
                        [j \in 1 .. 16 |-> subroutineData[(b - 1) * 16 + j]])]

\* Usc.setSubroutines; subroutineAddresses is the dictionary as the sequence
\* of its (name, address) items, in the order the code iterates over them
SetSubroutines(subroutineAddresses, subroutineCommands) ==
    LET subroutineData == SubroutineData(subroutineAddresses, subroutineCommands,
                                         [n \in 1 .. 256 |-> 255], 1)
    IN  [b \in 1 .. 16 |->
            TransferOut(REQUEST_WRITE_SCRIPT, 0, (b - 1) + subroutineOffsetBlocks,
                        [j \in 1 .. 16 |-> subroutineData[(b - 1) * 16 + j]])]

\* Usc._getVariableMiniMaestro('variables'), the device answering with
\* received bytes
GetVariablesMini(received) ==
    [transfers |-> <<TransferIn(REQUEST_GET_VARIABLES, 0, 0,
                                MiniMaestroVariablesSize, received)>>,
     err |-> IF received # MiniMaestroVariablesSize THEN "ShortRead" ELSE "none"]

\* _reinitialize without the read of the variables, on either variant
ReinitializeWithoutRead(waitTime, received) ==
    [transfers |-> <<TransferOut(REQUEST_REINITIALIZE, 0, 0, <<>>)>>,
     err |-> "none", slept |-> waitTime]

\* Usc._reinitialize
Reinitialize(waitTime, received) ==
    LET first == <<TransferOut(REQUEST_REINITIALIZE, 0, 0, <<>>)>>
        read == GetVariablesMini(received)
    IN  IF microMaestro
        THEN [transfers |-> first, err |-> "none", slept |-> waitTime]
        ELSE IF read.err # "none"
        THEN [transfers |-> first \o read.transfers, err |-> read.err, slept |-> 0]
        ELSE [transfers |-> first \o read.transfers, err |-> "none",
              slept |-> waitTime]

\* the steps of loadProgram with the checksum written before the script
UploadScriptChecksumFirst(program, byteList, CRC, received) ==
    LET crc == IF CRC THEN SetRawParameter(PARAMETER_SCRIPT_CRC, program.crc)
               ELSE [transfers |-> <<>>, err |-> "none"]
        written == EraseScript
                   \o crc.transfers
                   \o SetSubroutines(program.subroutineAddresses,
                                     program.subroutineCommands)
                   \o WriteScript(byteList)
        reinit == Reinitialize(100, received)
    IN  IF crc.err # "none"
        THEN [transfers |-> EraseScript, err |-> crc.err, slept |-> 0]
        ELSE [transfers |-> written \o reinit.transfers,
              err |-> reinit.err, slept |-> reinit.slept]

\* the steps of loadProgram after the length check, for the byte list as
\* it is after the terminator rule
UploadScript(program, byteList, CRC, received) ==
    LET written == EraseScript
                   \o SetSubroutines(program.subroutineAddresses,
                                     program.subroutineCommands)
                   \o WriteScript(byteList)
        crc == IF CRC THEN SetRawParameter(PARAMETER_SCRIPT_CRC, program.crc)
               ELSE [transfers |-> <<>>, err |-> "none"]
        reinit == Reinitialize(100, received)
    IN  IF crc.err # "none"
        THEN [transfers |-> written, err |-> crc.err, slept |-> 0]
        ELSE [transfers |-> written \o crc.transfers \o reinit.transfers,
              err |-> reinit.err, slept |-> reinit.slept]

\* loadProgram appending the terminator to every program that passes the
\* length check
LoadProgramAlwaysQuit(program, CRC, received) ==
    LET byteList == program.byteList
        rest == UploadScript(program, Append(byteList, Opcode_QUIT), CRC, received)
    IN  IF Len(byteList) > maxScriptLength
        THEN [transfers |-> SetScriptDone(1), err |-> "ScriptTooLong", slept |-> 0]
        ELSE [transfers |-> SetScriptDone(1) \o rest.transfers,
              err |-> rest.err, slept |-> rest.slept]

\* Usc.loadProgram
LoadProgram(program, CRC, received) ==
    LET byteList == program.byteList
        rest == UploadScript(program,
                             IF Len(byteList) < maxScriptLength
                             THEN Append(byteList, Opcode_QUIT)
                             ELSE byteList,
                             CRC, received)
    IN  IF Len(byteList) > maxScriptLength
        THEN [transfers |-> SetScriptDone(1), err |-> "ScriptTooLong", slept |-> 0]
        ELSE [transfers |-> SetScriptDone(1) \o rest.transfers,
              err |-> rest.err, slept |-> rest.slept]

----------------------------------------------------------------------------
(* The script operations and their inputs.                                 *)

\* a byte sequence of n bytes, all positions of a block different (the
\* concatenation makes TLC hold it as a tuple)
PatternCode(n, seed) == <<>> \o [i \in 1 .. n |-> (seed + 7 * (i - 1)) % 256]

CodeSeeds == {0, 248}

SubroutineNames == <<"foo", "bar", "baz", "qux">>

\* addresses within script memory
SubroutineAddresses == {0, 300, 8191}

\* the opcode of a subroutine: 128..255, or CALL for one that is only
\* called by address
SubroutineOpcodes == {128, 130, 255, Opcode_CALL}

\* the subroutine dictionaries of a compiled program with k subroutines: no
\* two subroutines share an opcode other than CALL
SubroutineTablesOf(k) ==
    LET commands == {c \in [1 .. k -> SubroutineOpcodes] :
                        \A i, j \in 1 .. k :
                            (i # j /\ c[i] # Opcode_CALL) => c[i] # c[j]}
    IN  {[subroutineAddresses |-> [i \in 1 .. k |-> <<SubroutineNames[i], a[i]>>],
          subroutineCommands |->
              [n \in {SubroutineNames[i] : i \in 1 .. k} |->
                  c[CHOOSE i \in 1 .. k : SubroutineNames[i] = n]]] :
            a \in [1 .. k -> SubroutineAddresses], c \in commands}

SubroutineTables == UNION {SubroutineTablesOf(k) : k \in 0 .. MaxSubroutines}

\* program.getCRC()
Checksums == {0, 65535}

\* a compiled program of maxScriptLength + d bytes with one subroutine
LongProgram(d, crc) ==
    [byteList |-> PatternCode(maxScriptLength + d, 0),
     subroutineAddresses |-> <<<<"foo", 300>>>>,
     subroutineCommands |-> [n \in {"foo"} |-> 130],
     crc |-> crc]

\* a compiled program of n bytes with the subroutine dictionaries t
ShortProgram(n, t) ==
    [byteList |-> PatternCode(n, 248),
     subroutineAddresses |-> t.subroutineAddresses,
     subroutineCommands |-> t.subroutineCommands,
     crc |-> 4660]

\* the lengths of the buffer the device may return for GET_VARIABLES
VariablesReplies == {MiniMaestroVariablesSize, MiniMaestroVariablesSize - 1}

\* a call of eraseScript()
CallEraseScript ==
    /\ pc = "idle"
    /\ transfers' = EraseScript
    /\ op' = "eraseScript"
    /\ pc' = "done"
    /\ UNCHANGED <<servoCount, params, slept, arg, result, err>>

\* a call of writeScript(bytecode)
CallWriteScript ==
    /\ pc = "idle"
    /\ \E n \in 0 .. MaxWriteLength, seed \in CodeSeeds :
          /\ arg' = [bytecode |-> PatternCode(n, seed)]
          /\ transfers' = WriteScript(PatternCode(n, seed))
    /\ op' = "writeScript"
    /\ pc' = "done"
    /\ UNCHANGED <<servoCount, params, slept, result, err>>

\* a call of setSubroutines(subroutineAddresses, subroutineCommands)
CallSetSubroutines ==
    /\ pc = "idle"
    /\ \E t \in SubroutineTables :
          /\ arg' = t
          /\ transfers' = SetSubroutines(t.subroutineAddresses, t.subroutineCommands)
    /\ op' = "setSubroutines"
    /\ pc' = "done"
    /\ UNCHANGED <<servoCount, params, slept, result, err>>

\* loadProgram(program, CRC), the device answering the read of the
\* variables, if there is one, with received bytes
LoadProgramCall(program, CRC, received) ==
    LET r == LoadProgram(program, CRC, received)
    IN  /\ pc = "idle"
        /\ arg' = [program |-> program, CRC |-> CRC]
        /\ transfers' = r.transfers
        /\ err' = r.err
        /\ slept' = r.slept
        /\ params' = DeviceAfter(params, r.transfers)
        /\ op' = "loadProgram"
        /\ pc' = "done"
        /\ UNCHANGED <<servoCount, result>>

\* a call of loadProgram: with a program around maxScriptLength, or with a
\* short one and at most one subroutine
CallLoadProgram ==
    \E CRC \in BOOLEAN,
       received \in (IF microMaestro THEN {MiniMaestroVariablesSize}
                     ELSE VariablesReplies) :
        \/ \E d \in (0 - ScriptSlack) .. ScriptSlack, crc \in Checksums :
              LoadProgramCall(LongProgram(d, crc), CRC, received)
        \/ \E n \in {0, 17}, t \in SubroutineTablesOf(0) \cup SubroutineTablesOf(1) :
              LoadProgramCall(ShortProgram(n, t), CRC, received)

NextScript ==
    \/ CallEraseScript
    \/ CallWriteScript
    \/ CallSetSubroutines
    \/ CallLoadProgram

SpecScript == Init /\ [][NextScript]_vars

----------------------------------------------------------------------------
(* C2 - C5: the script upload.                                             *)

\* C2 as claimed: loadProgram with a byte code longer than maxScriptLength
\* raises the script-too-long error before it has issued any transfer.
C2_TooLongBeforeAnyTransfer ==
    (pc = "done" /\ op = "loadProgram"
        /\ Len(arg.program.byteList) > maxScriptLength) =>
        (err = "ScriptTooLong" /\ transfers = <<>>)

\* ceil(n / 16)
BlocksOf(n) == CHOOSE k \in 0 .. n : 16 * k >= n /\ 16 * k < n + 16

\* a WRITE_SCRIPT transfer
IsWriteScript(t) == t.bRequest = REQUEST_WRITE_SCRIPT

\* the byte-code blocks of a loadProgram: its WRITE_SCRIPT transfers after
\* the sixteen that carry the subroutine table
CodeBlocks ==
    LET writes == SelectSeq(transfers, IsWriteScript)
    IN  SubSeq(writes, 17, Len(writes))

\* the blocks hold exactly the bytes of written, in order, then 0xFF
BlocksHold(blocks, written) ==
    /\ Len(blocks) = BlocksOf(Len(written))
    /\ \A b \in 1 .. Len(blocks) :
          /\ blocks[b].wIndex = b - 1
          /\ Len(blocks[b].data) = 16
          /\ \A j \in 0 .. 15 :
                blocks[b].data[j + 1] =
                    IF 16 * (b - 1) + j < Len(written)
                    THEN written[16 * (b - 1) + j + 1]
                    ELSE 255

TableByte(n) == transfers[(n \div 16) + 1].data[(n % 16) + 1]

C5_BlockLayout ==
    (pc = "done" /\ op = "writeScript") =>
        /\ BlocksHold(transfers, arg.bytecode)
        /\ \A b \in 1 .. Len(transfers) :
              /\ transfers[b].bRequest = REQUEST_WRITE_SCRIPT
              /\ transfers[b].bmRequestType = 64
        /\ arg.bytecode = <<>> => transfers = <<>>

\* 17 bytes: two blocks, the second with one byte and fifteen of padding
C5_Witness ==
    /\ pc = "done"
    /\ op = "writeScript"
    /\ Len(arg.bytecode) = 17
    /\ Len(transfers) = 2
    /\ transfers[2].data[1] = arg.bytecode[17]
    /\ transfers[2].data[2] = 255

----------------------------------------------------------------------------
(* settings.py and the settings write path.                                *)

\* class ChannelSetting (the name, which never reaches the device, left out)
DefaultChannelSetting ==
    [mode |-> Servo, homeMode |-> Off, home |-> 6000, minimum |-> 3968,
     maximum |-> 8000, neutral |-> 6000, range |-> 1905, speed |-> 0,
     acceleration |-> 0]

\* class UscSettings, with no channel settings yet and no compiled program
DefaultSettings ==
    [servosAvailable |-> 6, servoPeriod |-> 156, miniMaestroServoPeriod |-> 80000,
     servoMultiplier |-> 1, serialMode |-> 2, fixedBaudRate |-> 9600,
     enableCrc |-> FALSE, neverSuspend |-> FALSE, serialDeviceNumber |-> 12,
     miniSscOffset |-> 0, serialTimeout |-> 0, scriptDone |-> TRUE,
     channelSettings |-> <<>>, enablePullups |-> TRUE,
     bytecodeProgram |-> NoValue]

\* int(flag) of a bool
IntOfBool(flag) == IF flag THEN 1 ELSE 0

\* Usc._convertSpbrgToBps: int((F + (spbrg + 1) / 2) / (spbrg + 1))
ConvertSpbrgToBps(spbrg) ==
    IF spbrg = 0 THEN 0
    ELSE TruncDiv(2 * 12000000 + (spbrg + 1), 2 * (spbrg + 1))

\* _convertBpsToSpbrg with round() in the place of int(): to the nearest
\* integer, a tie to the even one
ConvertBpsToSpbrgRounded(bps) ==
    IF bps = 0 THEN 0
    ELSE LET floor == (2 * 12000000 - bps) \div (2 * bps)
             rest == (2 * 12000000 - bps) % (2 * bps)
         IN  IF rest > bps \/ (rest = bps /\ floor % 2 = 1)
             THEN floor + 1
             ELSE floor

\* Usc._convertBpsToSpbrg: int((F - bps / 2) / bps), for bps >= 0
ConvertBpsToSpbrg(bps) ==
    IF bps = 0 THEN 0
    ELSE TruncDiv(2 * 12000000 - bps, 2 * bps)

\* one call of _setRawParameter(parameter, value) in setUscSettings
Write(parameter, value) ==
    [parameter |-> parameter, value |-> value, raises |-> "none"]

\* settings.channelSettings[i] for an i the list does not have
IndexError == [parameter |-> 0, value |-> 0, raises |-> "IndexError"]

\* setUscSettings, lines 377-406: the device-wide parameters
DeviceWideWrites(settings) ==
    << Write(PARAMETER_SERIAL_MODE, settings.serialMode),
       Write(PARAMETER_SERIAL_FIXED_BAUD_RATE, ConvertBpsToSpbrg(settings.fixedBaudRate)),
       Write(PARAMETER_SERIAL_ENABLE_CRC, IntOfBool(settings.enableCrc)),
       Write(PARAMETER_SERIAL_NEVER_SUSPEND, IntOfBool(settings.neverSuspend)),
       Write(PARAMETER_SERIAL_DEVICE_NUMBER, settings.serialDeviceNumber),
       Write(PARAMETER_SERIAL_MINI_SSC_OFFSET, settings.miniSscOffset),
       Write(PARAMETER_SERIAL_TIMEOUT, settings.serialTimeout),
       Write(PARAMETER_SCRIPT_DONE, IntOfBool(settings.scriptDone)) >>
    \o (IF microMaestro
        THEN << Write(PARAMETER_SERVOS_AVAILABLE, settings.servosAvailable),
                Write(PARAMETER_SERVO_PERIOD, settings.servoPeriod) >>
        ELSE << Write(PARAMETER_MINI_MAESTRO_SERVO_PERIOD_L,
                      BitAnd(settings.miniMaestroServoPeriod, 255)),
                Write(PARAMETER_MINI_MAESTRO_SERVO_PERIOD_HU,
                      ShiftRight(settings.miniMaestroServoPeriod, 8)),
                Write(PARAMETER_SERVO_MULTIPLIER,
                      IF settings.servoMultiplier < 1 THEN 0
                      ELSE IF settings.servoMultiplier > 256 THEN 255
                      ELSE settings.servoMultiplier - 1) >>)
    \o (IF servoCount > 18
        THEN << Write(PARAMETER_ENABLE_PULLUPS, IntOfBool(settings.enablePullups)) >>
        ELSE << >>)

\* the home value with the stored home mode taken as it is, also for an
\* input channel
HomeValueOfStoredMode(setting) ==
    IF setting.homeMode = Off THEN 0
    ELSE IF setting.homeMode = Ignore THEN 1
    ELSE setting.home

\* setUscSettings, lines 424-434: the raw home value of a channel
HomeValue(setting) ==
    LET correctedHomeMode ==
            IF setting.mode = Input THEN Ignore ELSE setting.homeMode
    IN  IF correctedHomeMode = Off THEN 0
        ELSE IF correctedHomeMode = Ignore THEN 1
        ELSE setting.home

\* setUscSettings, lines 436-444: the seven parameters of channel i
ChannelWrites(setting, i) ==
    << Write(specifyServo(PARAMETER_SERVO0_HOME, i), HomeValue(setting)),
       Write(specifyServo(PARAMETER_SERVO0_MIN, i), TruncDiv(setting.minimum, 64)),
       Write(specifyServo(PARAMETER_SERVO0_MAX, i), TruncDiv(setting.maximum, 64)),
       Write(specifyServo(PARAMETER_SERVO0_NEUTRAL, i), setting.neutral),
       Write(specifyServo(PARAMETER_SERVO0_RANGE, i), TruncDiv(setting.range, 127)),
       Write(specifyServo(PARAMETER_SERVO0_SPEED, i),
             NormalSpeedToExponentialSpeed(setting.speed).value),
       Write(specifyServo(PARAMETER_SERVO0_ACCELERATION, i), setting.acceleration) >>

RECURSIVE AllChannelWrites(_, _)
\* setUscSettings, the loop of line 412 from channel i on
AllChannelWrites(channelSettings, i) ==
    IF i >= servoCount THEN << >>
    ELSE IF i >= Len(channelSettings) THEN << IndexError >>
    ELSE ChannelWrites(channelSettings[i + 1], i)
         \o AllChannelWrites(channelSettings, i + 1)

RECURSIVE IoMask(_, _)
\* ioMask after the first n channels
IoMask(channelSettings, n) ==
    IF n = 0 THEN 0
    ELSE LET mode == channelSettings[n].mode
             before == IoMask(channelSettings, n - 1)
         IN  IF mode = Input \/ mode = Output
             THEN BitOr(before, ShiftLeft(1, ChannelToPort(n - 1).port))
             ELSE before

\* outputMask with the bit of every channel that is not a servo
OutputMaskOfInputsToo(channelSettings, n) == IoMask(channelSettings, n)

RECURSIVE OutputMask(_, _)
\* outputMask after the first n channels
OutputMask(channelSettings, n) ==
    IF n = 0 THEN 0
    ELSE LET before == OutputMask(channelSettings, n - 1)
         IN  IF channelSettings[n].mode = Output
             THEN BitOr(before, ShiftLeft(1, ChannelToPort(n - 1).port))
             ELSE before

RECURSIVE ChannelModeByteOneBit(_, _, _)
\* channelModeBytes[byte] with the mode of a channel shifted by one bit
\* for each channel before it in the byte
ChannelModeByteOneBit(channelSettings, byte, n) ==
    IF n = 0 THEN 0
    ELSE LET i == n - 1
             before == ChannelModeByteOneBit(channelSettings, byte, n - 1)
         IN  IF ShiftRight(i, 2) = byte
             THEN BitOr(before, ShiftLeft(channelSettings[n].mode, BitAnd(i, 3)))
             ELSE before

RECURSIVE ChannelModeByte(_, _, _)
\* channelModeBytes[byte] after the first n channels
ChannelModeByte(channelSettings, byte, n) ==
    IF n = 0 THEN 0
    ELSE LET i == n - 1
             before == ChannelModeByte(channelSettings, byte, n - 1)
         IN  IF ShiftRight(i, 2) = byte
             THEN BitOr(before, ShiftLeft(channelSettings[n].mode,
                                          ShiftLeft(BitAnd(i, 3), 1)))
             ELSE before

\* the smaller of two numbers
Min(a, b) == IF a <= b THEN a ELSE b

\* setUscSettings, lines 446-451: the channel modes
ModeWrites(settings) ==
    LET cs == settings.channelSettings
        n == Min(Len(cs), servoCount)
    IN  IF microMaestro
        THEN << Write(PARAMETER_IO_MASK_C, IoMask(cs, n)),
                Write(PARAMETER_OUTPUT_MASK_C, OutputMask(cs, n)) >>
        ELSE [i \in 1 .. 6 |->
                 Write(PARAMETER_CHANNEL_MODES_0_3 + (i - 1),
                       ChannelModeByte(cs, i - 1, n))]

\* the exception a call of the list raises, "none" if it raises none
RaisedBy(step) ==
    IF step.raises # "none" THEN step.raises
    ELSE SetRawParameter(step.parameter, step.value).err

\* the calls of a list in order, up to the first that raises
RunWrites(steps) ==
    LET bad == {k \in 1 .. Len(steps) : RaisedBy(steps[k]) # "none"}
        stop == IF bad = {} THEN Len(steps) + 1
                ELSE CHOOSE k \in bad : \A l \in bad : k <= l
    IN  [transfers |->
            << >> \o [k \in 1 .. stop - 1 |->
                SetRawParameter(steps[k].parameter, steps[k].value).transfers[1]],
         err |-> IF bad = {} THEN "none" ELSE RaisedBy(steps[stop])]

\* Usc.setUscSettings
SetUscSettings(settings, newScript, received) ==
    LET written == RunWrites(DeviceWideWrites(settings)
                             \o AllChannelWrites(settings.channelSettings, 0)
                             \o ModeWrites(settings))
        program == settings.bytecodeProgram
        upload == IF program = NoValue
                  THEN [transfers |-> SetScriptDone(1), err |-> "AttributeError",
                        slept |-> 0]
                  ELSE LoadProgram(program, TRUE, received)
    IN  IF written.err # "none" \/ ~newScript
        THEN [transfers |-> written.transfers, err |-> written.err, slept |-> 0]
        ELSE [transfers |-> written.transfers \o upload.transfers,
              err |-> upload.err, slept |-> upload.slept]

----------------------------------------------------------------------------
(* The settings read path.                                                 *)

\* the integer _getRawParameter unpacks from the bytes the device returns
RawParameter(store, parameter) ==
    IF getRange(parameter).bytes = 1 THEN store[parameter] % 256
    ELSE store[parameter] % 65536

\* the transfer of _getRawParameter
GetRawParameterTransfer(parameter) ==
    TransferIn(REQUEST_GET_PARAMETER, 0, parameter,
               getRange(parameter).bytes, getRange(parameter).bytes)

\* getUscSettings, lines 527-535: the home mode and home of a raw value
DecodeHome(home) ==
    IF home = 0 THEN [homeMode |-> Off, home |-> 0]
    ELSE IF home = 1 THEN [homeMode |-> Ignore, home |-> 0]
    ELSE [homeMode |-> Goto, home |-> home]

\* getUscSettings, lines 514-523: the mode of channel i
DecodeMode(store, i) ==
    IF microMaestro
    THEN LET bitmask == ShiftLeft(1, ChannelToPort(i).port)
             ioMask == RawParameter(store, PARAMETER_IO_MASK_C)
             outputMask == RawParameter(store, PARAMETER_OUTPUT_MASK_C)
         IN  IF BitAnd(ioMask, bitmask) = 0 THEN Servo
             ELSE IF BitAnd(outputMask, bitmask) = 0 THEN Input
             ELSE Output
    ELSE BitAnd(ShiftRight(RawParameter(store, PARAMETER_CHANNEL_MODES_0_3
                                               + ShiftRight(i, 2)),
                           ShiftLeft(BitAnd(i, 3), 1)),
                3)

\* the ChannelSetting of channel i with the acceleration read at the
\* address of the speed
ReadChannelAccelerationFromSpeed(store, i) ==
    LET home == DecodeHome(RawParameter(store, specifyServo(PARAMETER_SERVO0_HOME, i)))
    IN  [mode |-> DecodeMode(store, i),
         homeMode |-> home.homeMode,
         home |-> home.home,
         minimum |-> 64 * RawParameter(store, specifyServo(PARAMETER_SERVO0_MIN, i)),
         maximum |-> 64 * RawParameter(store, specifyServo(PARAMETER_SERVO0_MAX, i)),
         neutral |-> RawParameter(store, specifyServo(PARAMETER_SERVO0_NEUTRAL, i)),
         range |-> 127 * RawParameter(store, specifyServo(PARAMETER_SERVO0_RANGE, i)),
         speed |-> ExponentialSpeedToNormalSpeed(
                       RawParameter(store, specifyServo(PARAMETER_SERVO0_SPEED, i))),
         acceleration |->
             RawParameter(store, specifyServo(PARAMETER_SERVO0_SPEED, i))]

\* getUscSettings, lines 511-546: the ChannelSetting of channel i
ReadChannel(store, i) ==
    LET home == DecodeHome(RawParameter(store, specifyServo(PARAMETER_SERVO0_HOME, i)))
    IN  [mode |-> DecodeMode(store, i),
         homeMode |-> home.homeMode,
         home |-> home.home,
         minimum |-> 64 * RawParameter(store, specifyServo(PARAMETER_SERVO0_MIN, i)),
         maximum |-> 64 * RawParameter(store, specifyServo(PARAMETER_SERVO0_MAX, i)),
         neutral |-> RawParameter(store, specifyServo(PARAMETER_SERVO0_NEUTRAL, i)),
         range |-> 127 * RawParameter(store, specifyServo(PARAMETER_SERVO0_RANGE, i)),
         speed |-> ExponentialSpeedToNormalSpeed(
                       RawParameter(store, specifyServo(PARAMETER_SERVO0_SPEED, i))),
         acceleration |->
             RawParameter(store, specifyServo(PARAMETER_SERVO0_ACCELERATION, i))]

\* the settings getUscSettings returns for a device with this store
ReadSettings(store) ==
    LET common ==
            [DefaultSettings EXCEPT
                !.serialMode = RawParameter(store, PARAMETER_SERIAL_MODE),
                !.fixedBaudRate = ConvertSpbrgToBps(
                    RawParameter(store, PARAMETER_SERIAL_FIXED_BAUD_RATE)),
                !.enableCrc = RawParameter(store, PARAMETER_SERIAL_ENABLE_CRC) # 0,
                !.neverSuspend = RawParameter(store, PARAMETER_SERIAL_NEVER_SUSPEND) # 0,
                !.serialDeviceNumber = RawParameter(store, PARAMETER_SERIAL_DEVICE_NUMBER),
                !.miniSscOffset = RawParameter(store, PARAMETER_SERIAL_MINI_SSC_OFFSET),
                !.serialTimeout = RawParameter(store, PARAMETER_SERIAL_TIMEOUT),
                !.scriptDone = RawParameter(store, PARAMETER_SCRIPT_DONE) # 0,
                !.channelSettings = [n \in 1 .. servoCount |-> ReadChannel(store, n - 1)]]
        variant ==
            IF microMaestro
            THEN [common EXCEPT
                    !.servosAvailable = RawParameter(store, PARAMETER_SERVOS_AVAILABLE),
                    !.servoPeriod = RawParameter(store, PARAMETER_SERVO_PERIOD)]
            ELSE [common EXCEPT
                    !.miniMaestroServoPeriod =
                        BitOr(ShiftLeft(RawParameter(store,
                                            PARAMETER_MINI_MAESTRO_SERVO_PERIOD_HU), 8),
                              RawParameter(store, PARAMETER_MINI_MAESTRO_SERVO_PERIOD_L)),
                    !.servoMultiplier =
                        RawParameter(store, PARAMETER_SERVO_MULTIPLIER) + 1]
    IN  IF servoCount > 18
        THEN [variant EXCEPT
                !.enablePullups = RawParameter(store, PARAMETER_ENABLE_PULLUPS) # 0]
        ELSE variant

\* the parameters getUscSettings reads, in the order it reads them
ReadOrder ==
    << PARAMETER_SERIAL_MODE, PARAMETER_SERIAL_FIXED_BAUD_RATE,
       PARAMETER_SERIAL_ENABLE_CRC, PARAMETER_SERIAL_NEVER_SUSPEND,
       PARAMETER_SERIAL_DEVICE_NUMBER, PARAMETER_SERIAL_MINI_SSC_OFFSET,
       PARAMETER_SERIAL_TIMEOUT, PARAMETER_SCRIPT_DONE >>
    \o (IF microMaestro
        THEN << PARAMETER_SERVOS_AVAILABLE, PARAMETER_SERVO_PERIOD >>
        ELSE << PARAMETER_MINI_MAESTRO_SERVO_PERIOD_HU,
                PARAMETER_MINI_MAESTRO_SERVO_PERIOD_L,
                PARAMETER_SERVO_MULTIPLIER >>)
    \o (IF servoCount > 18 THEN << PARAMETER_ENABLE_PULLUPS >> ELSE << >>)
    \o (IF microMaestro
        THEN << PARAMETER_IO_MASK_C, PARAMETER_OUTPUT_MASK_C >>
        ELSE [i \in 1 .. 6 |-> PARAMETER_CHANNEL_MODES_0_3 + (i - 1)])
    \o [n \in 1 .. 7 * servoCount |->
           specifyServo(<< PARAMETER_SERVO0_HOME, PARAMETER_SERVO0_MIN,
                           PARAMETER_SERVO0_MAX, PARAMETER_SERVO0_NEUTRAL,
                           PARAMETER_SERVO0_RANGE, PARAMETER_SERVO0_SPEED,
                           PARAMETER_SERVO0_ACCELERATION >>[((n - 1) % 7) + 1],
                        (n - 1) \div 7)]

\* Usc.getUscSettings
GetUscSettings(store) ==
    LET order == ReadOrder
    IN  [settings |-> ReadSettings(store),
         transfers |-> [k \in 1 .. Len(order) |-> GetRawParameterTransfer(order[k])]]

----------------------------------------------------------------------------
(* The settings operations and their inputs.                               *)

\* the parameter store of a device that has been in use: the raw homes of
\* its channels run through 0, 1, 2, a value above the range of a home and
\* the value of an erased parameter
PatternStore ==
    [p \in 0 .. 255 |->
        IF p < 30 THEN (37 * p) % 256
        ELSE LET c == (p - 30) \div 9
             IN  IF c < 3 THEN c
                 ELSE IF c = 3 THEN 40000
                 ELSE IF c = 4 THEN ErasedStore[p]
                 ELSE 1000 * c + p]

\* settings with n channel settings, all as ChannelSetting() makes them
BaseSettings(n) ==
    [DefaultSettings EXCEPT !.channelSettings = [i \in 1 .. n |-> DefaultChannelSetting]]

Homes == {0, 1, 2, 32440, 32441}

\* channel settings of every mode and home mode
ChannelVariants ==
    {[DefaultChannelSetting EXCEPT !.mode = m, !.homeMode = hm, !.home = h] :
        m \in {Servo, ServoMultiplied, Output, Input},
        hm \in {Off, Ignore, Goto}, h \in Homes}

\* channel settings with one scaled field at or beyond the end of its range
ScaledVariants ==
    {[DefaultChannelSetting EXCEPT !.minimum = v] : v \in {0 - 64, 0, 16320, 16384}}
    \cup {[DefaultChannelSetting EXCEPT !.maximum = v] : v \in {0, 16383, 16384}}
    \cup {[DefaultChannelSetting EXCEPT !.range = v] : v \in {0, 127, 6350, 6477}}
    \cup {[DefaultChannelSetting EXCEPT !.neutral = v] : v \in {0, 32440, 32441}}
    \cup {[DefaultChannelSetting EXCEPT !.acceleration = v] : v \in {255, 256}}
    \cup {[DefaultChannelSetting EXCEPT !.speed = v] : v \in {160, 4095, 4096}}

\* settings with one device-wide field at or beyond the end of its range
DeviceWideVariants ==
    LET base == BaseSettings(servoCount)
    IN  {[base EXCEPT !.serialMode = v] : v \in {0, 3, 4}}
        \cup {[base EXCEPT !.fixedBaudRate = v] : v \in {0, 100, 115200}}
        \cup {[base EXCEPT !.serialDeviceNumber = v] : v \in {0, 127, 128, 200}}
        \cup {[base EXCEPT !.miniSscOffset = v] : v \in {254, 255}}
        \cup {[base EXCEPT !.serialTimeout = v] : v \in {65535, 65536}}
        \cup {[base EXCEPT !.servosAvailable = v] : v \in {0, 256}}
        \cup {[base EXCEPT !.servoPeriod = v] : v \in {255, 256}}
        \cup {[base EXCEPT !.servoMultiplier = v] : v \in {0, 256, 257}}
        \cup {[base EXCEPT !.miniMaestroServoPeriod = v] : v \in {16777215, 16777216}}
        \cup {[base EXCEPT !.enableCrc = TRUE, !.neverSuspend = TRUE,
                           !.scriptDone = FALSE, !.enablePullups = FALSE]}

\* settings whose channels run through the four modes, from the mode
\* first on
ModePatterns ==
    {[DefaultSettings EXCEPT
        !.channelSettings =
            [i \in 1 .. servoCount |->
                [DefaultChannelSetting EXCEPT !.mode = (first + i - 1) % 4]]] :
        first \in {Servo, ServoMultiplied, Output, Input}}

\* settings whose channels run through the four modes and have each their
\* own limits, neutral, range, speed and acceleration, all of them values
\* the device holds exactly
ExactPatterns ==
    {[DefaultSettings EXCEPT
        !.channelSettings =
            [i \in 1 .. servoCount |->
                [DefaultChannelSetting EXCEPT
                    !.mode = (first + i - 1) % 4,
                    !.minimum = 64 * i,
                    !.maximum = 64 * (200 + i),
                    !.neutral = 6000 + i,
                    !.range = 127 * i,
                    !.speed = 32 * i,
                    !.acceleration = i]]] :
        first \in {Servo, ServoMultiplied, Output, Input}}

\* the settings setUscSettings is called with
SettingsInputs ==
    {[BaseSettings(servoCount) EXCEPT !.channelSettings[k] = cs] :
        k \in {1, servoCount}, cs \in ChannelVariants \cup ScaledVariants}
    \cup DeviceWideVariants
    \cup ModePatterns
    \cup ExactPatterns
    \cup {BaseSettings(servoCount + d) : d \in (0 - ChannelSlack) .. ChannelSlack}

\* the settings setUscSettings is called with to load their script as well
ScriptSettingsInputs ==
    {[BaseSettings(servoCount) EXCEPT !.bytecodeProgram = program] :
        program \in {NoValue} \cup {ShortProgram(n, t) : n \in {0, 17},
                                                        t \in SubroutineTablesOf(1)}}

InitSettings ==
    /\ servoCount \in ServoCounts
    /\ params = PatternStore
    /\ transfers = <<>>
    /\ slept = 0
    /\ pc = "idle"
    /\ op = "none"
    /\ arg = NoValue
    /\ result = NoValue
    /\ err = "none"

\* setUscSettings(settings, newScript), the device answering the read of
\* the variables, if there is one, with received bytes
SetUscSettingsCall(settings, newScript, received) ==
    LET r == SetUscSettings(settings, newScript, received)
    IN  /\ arg' = [settings |-> settings, newScript |-> newScript]
        /\ transfers' = r.transfers
        /\ params' = DeviceAfter(params, r.transfers)
        /\ err' = r.err
        /\ slept' = r.slept
        /\ op' = "setUscSettings"
        /\ pc' = "done"
        /\ UNCHANGED <<servoCount, result>>

\* a call of setUscSettings
CallSetUscSettings ==
    /\ pc = "idle"
    /\ \/ \E settings \in SettingsInputs :
             SetUscSettingsCall(settings, FALSE, MiniMaestroVariablesSize)
       \/ \E settings \in ScriptSettingsInputs,
             received \in (IF microMaestro THEN {MiniMaestroVariablesSize}
                           ELSE VariablesReplies) :
             SetUscSettingsCall(settings, TRUE, received)

\* a call of getUscSettings(), on a fresh session or after a setUscSettings
\* that returned; arg keeps the settings that were written
CallGetUscSettings ==
    /\ \/ pc = "idle"
       \/ pc = "done" /\ op = "setUscSettings" /\ err = "none"
    /\ LET r == GetUscSettings(params)
       IN  /\ result' = r.settings
           /\ transfers' = r.transfers
    /\ op' = "getUscSettings"
    /\ pc' = "done"
    /\ slept' = 0
    /\ UNCHANGED <<servoCount, params, arg, err>>

NextSettings ==
    \/ CallSetUscSettings
    \/ CallGetUscSettings

SpecSettings == InitSettings /\ [][NextSettings]_vars

----------------------------------------------------------------------------
(* Claims about the settings operations.                                   *)

\* the positions in transfers of the SET_PARAMETER writes of a raw home
HomeWrites ==
    {k \in 1 .. Len(transfers) :
        /\ transfers[k].bRequest = REQUEST_SET_PARAMETER
        /\ transfers[k].wIndex % 256 >= PARAMETER_SERVO0_HOME
        /\ ((transfers[k].wIndex % 256) - PARAMETER_SERVO0_HOME) % servoParameterBytes = 0}

\* the channel setting whose raw home the k-th transfer writes
SettingOfHomeWrite(k) ==
    arg.settings.channelSettings[
        (((transfers[k].wIndex % 256) - PARAMETER_SERVO0_HOME) \div servoParameterBytes) + 1]

\* C1: whenever setUscSettings fails because a derived raw value is outside
\* the range of its parameter, it has issued no control transfer at all.
C1_NothingSentOnRangeFailure ==
    (op = "setUscSettings" /\ err = "OutOfRange") => transfers = << >>

\* C6, the write rule: every raw home setUscSettings writes is 1 for an
\* Input channel, else 0 for Off, 1 for Ignore and the stored home for Goto
\* with a home in 2 .. 32440.
C6_WriteRule ==
    op = "setUscSettings" =>
        \A k \in HomeWrites :
            LET setting == SettingOfHomeWrite(k)
                raw == transfers[k].wValue
            IN  /\ setting.mode = Input => raw = 1
                /\ (setting.mode # Input /\ setting.homeMode = Off) => raw = 0
                /\ (setting.mode # Input /\ setting.homeMode = Ignore) => raw = 1
                /\ (setting.mode # Input /\ setting.homeMode = Goto
                    /\ setting.home \in 2 .. 32440) => raw = setting.home

\* C6, the read rule: getUscSettings decodes the raw home 0 of a channel to
\* (Off, 0), 1 to (Ignore, 0) and every raw home from 2 on to (Goto, raw).
C6_ReadRule ==
    op = "getUscSettings" =>
        \A i \in 0 .. servoCount - 1 :
            LET raw == RawParameter(params, specifyServo(PARAMETER_SERVO0_HOME, i))
                read == result.channelSettings[i + 1]
            IN  /\ raw = 0 => (read.homeMode = Off /\ read.home = 0)
                /\ raw = 1 => (read.homeMode = Ignore /\ read.home = 0)
                /\ raw >= 2 => (read.homeMode = Goto /\ read.home = raw)

\* C6, the round trip: getUscSettings after a setUscSettings that returned
\* gives every channel that is not an Input and has a home in 2 .. 32440
\* the home mode that was written.
C6_RoundTrip ==
    (op = "getUscSettings" /\ arg # NoValue) =>
        \A i \in 1 .. servoCount :
            LET setting == arg.settings.channelSettings[i]
            IN  (setting.mode # Input /\ setting.home \in 2 .. 32440) =>
                    result.channelSettings[i].homeMode = setting.homeMode

\* C6: the home codec, write rule, read rule and round trip together.
C6_HomeCodec == C6_WriteRule /\ C6_ReadRule /\ C6_RoundTrip

\* getUscSettings has read back the Goto home 32440 that setUscSettings
\* wrote for a Servo channel
C6_Witness ==
    /\ op = "getUscSettings"
    /\ arg # NoValue
    /\ \E i \in 1 .. servoCount :
          LET setting == arg.settings.channelSettings[i]
          IN  /\ setting.mode = Servo
              /\ setting.homeMode = Goto
              /\ setting.home = 32440
              /\ params[specifyServo(PARAMETER_SERVO0_HOME, i - 1)] = 32440
              /\ result.channelSettings[i].homeMode = Goto
              /\ result.channelSettings[i].home = 32440

\* C7: setUscSettings never writes the raw home 0 or 1 for a channel whose
\* effective home mode is Goto.
C7_GotoNeverWritesSentinel ==
    op = "setUscSettings" =>
        \A k \in HomeWrites :
            LET setting == SettingOfHomeWrite(k)
            IN  (setting.mode # Input /\ setting.homeMode = Goto) =>
                    transfers[k].wValue \notin {0, 1}

\* bit p of a value
BitOf(value, p) == (value \div Pow2(p)) % 2

\* the values the SET_PARAMETER transfers of transfers carry for a parameter
WrittenValues(parameter) ==
    {transfers[k].wValue : k \in {j \in 1 .. Len(transfers) :
        /\ transfers[j].bRequest = REQUEST_SET_PARAMETER
        /\ transfers[j].wIndex % 256 = parameter}}

\* the port of a channel of the Micro Maestro, as the claim names it
PortOfChannel == <<0, 1, 2, 3, 6, 7>>

\* C11, the write rule: in the masks setUscSettings writes on the Micro
\* Maestro, the bit of the port of a channel is set in ioMask iff the
\* channel is an Input or an Output and in outputMask iff it is an Output,
\* and bits 4 and 5 are clear.
C11_WriteRule ==
    (op = "setUscSettings" /\ microMaestro /\ Len(arg.settings.channelSettings) >= 6) =>
        /\ \A io \in WrittenValues(PARAMETER_IO_MASK_C) :
              /\ \A c \in 1 .. 6 :
                    BitOf(io, PortOfChannel[c]) = 1
                        <=> arg.settings.channelSettings[c].mode \in {Input, Output}
              /\ BitOf(io, 4) = 0 /\ BitOf(io, 5) = 0 /\ io < 256
        /\ \A out \in WrittenValues(PARAMETER_OUTPUT_MASK_C) :
              /\ \A c \in 1 .. 6 :
                    BitOf(out, PortOfChannel[c]) = 1
                        <=> arg.settings.channelSettings[c].mode = Output
              /\ BitOf(out, 4) = 0 /\ BitOf(out, 5) = 0 /\ out < 256

\* C11, the read rule: getUscSettings on the Micro Maestro reads a channel
\* as Servo when its io bit is clear, as Input when its io bit is set and
\* its output bit clear, and as Output when both are set.
C11_ReadRule ==
    (op = "getUscSettings" /\ microMaestro) =>
        \A c \in 1 .. 6 :
            LET io == BitOf(params[PARAMETER_IO_MASK_C] % 256, PortOfChannel[c])
                out == BitOf(params[PARAMETER_OUTPUT_MASK_C] % 256, PortOfChannel[c])
                mode == result.channelSettings[c].mode
            IN  /\ io = 0 => mode = Servo
                /\ (io = 1 /\ out = 0) => mode = Input
                /\ (io = 1 /\ out = 1) => mode = Output

\* C11, the round trip: getUscSettings after a setUscSettings that returned
\* gives every channel written as Servo, Input or Output its mode back.
C11_RoundTrip ==
    (op = "getUscSettings" /\ microMaestro /\ arg # NoValue) =>
        \A c \in 1 .. 6 :
            arg.settings.channelSettings[c].mode \in {Servo, Input, Output} =>
                result.channelSettings[c].mode = arg.settings.channelSettings[c].mode

\* C11: the channel-mode masks of the Micro Maestro.
C11_ModeMasks == C11_WriteRule /\ C11_ReadRule /\ C11_RoundTrip

\* getUscSettings has read channel 5 back as the Output it was written as,
\* from masks that both have bit 7 set
C11_Witness ==
    /\ op = "getUscSettings"
    /\ microMaestro
    /\ arg # NoValue
    /\ arg.settings.channelSettings[6].mode = Output
    /\ BitOf(params[PARAMETER_IO_MASK_C], 7) = 1
    /\ BitOf(params[PARAMETER_OUTPUT_MASK_C], 7) = 1
    /\ result.channelSettings[6].mode = Output

\* the mode bytes setUscSettings has written, byte b of them at b + 1; 0 - 1
\* where it has written none or more than one value
ModeBytesWritten ==
    [b \in 1 .. 6 |->
        LET values == WrittenValues(PARAMETER_CHANNEL_MODES_0_3 + (b - 1))
        IN  IF Cardinality(values) = 1 THEN CHOOSE v \in values : TRUE ELSE 0 - 1]

\* the number of SET_PARAMETER transfers that carry a mode byte
ModeByteTransfers ==
    Cardinality({k \in 1 .. Len(transfers) :
        /\ transfers[k].bRequest = REQUEST_SET_PARAMETER
        /\ transfers[k].wIndex % 256 \in
              PARAMETER_CHANNEL_MODES_0_3 .. PARAMETER_CHANNEL_MODES_0_3 + 5})

\* the two bits of channel c in the mode byte value
ModeBits(value, c) == (value \div Pow2(2 * (c % 4))) % 4

\* C12, the write rule: a setUscSettings that returns on a Mini Maestro has
\* sent exactly six mode bytes; bits 2*(c mod 4) and 2*(c mod 4)+1 of byte
\* c div 4 hold the mode of channel c for c < servoCount and 0 for the
\* channels from servoCount on.
C12_WriteRule ==
    (op = "setUscSettings" /\ ~microMaestro /\ err = "none") =>
        /\ ModeByteTransfers = 6
        /\ \A c \in 0 .. 23 :
              LET byte == ModeBytesWritten[(c \div 4) + 1]
              IN  /\ byte \in 0 .. 255
                  /\ ModeBits(byte, c) =
                        IF c < servoCount THEN arg.settings.channelSettings[c + 1].mode
                        ELSE 0

\* C12, the round trip: getUscSettings on a Mini Maestro reads for channel c
\* the two bits of byte c div 4 shifted right by 2*(c mod 4), which after a
\* setUscSettings that returned is the mode that was written.
C12_RoundTrip ==
    (op = "getUscSettings" /\ ~microMaestro) =>
        \A c \in 0 .. servoCount - 1 :
            /\ result.channelSettings[c + 1].mode =
                  ModeBits(params[PARAMETER_CHANNEL_MODES_0_3 + (c \div 4)] % 256, c)
            /\ arg # NoValue =>
                  result.channelSettings[c + 1].mode =
                      arg.settings.channelSettings[c + 1].mode

\* C12: the packed channel modes of the Mini Maestro.
C12_ModePacking == C12_WriteRule /\ C12_RoundTrip

\* getUscSettings has read back the modes of an 18-channel device whose
\* channels 16 and 17 were written with two different modes other than
\* Servo, from a fifth mode byte whose upper half is 0
C12_Witness ==
    /\ op = "getUscSettings"
    /\ servoCount = 18
    /\ arg # NoValue
    /\ arg.settings.channelSettings[17].mode # Servo
    /\ arg.settings.channelSettings[18].mode # Servo
    /\ arg.settings.channelSettings[17].mode # arg.settings.channelSettings[18].mode
    /\ params[PARAMETER_CHANNEL_MODES_16_19] < 16
    /\ \A c \in 1 .. 18 :
          result.channelSettings[c].mode = arg.settings.channelSettings[c].mode

----------------------------------------------------------------------------
(* fixSettings.                                                            *)

\* fixSettings with the warning about the serial device number left out
FixDeviceNumberSilently(settings, warnings) ==
    IF settings.serialDeviceNumber >= 128
    THEN [settings |-> [settings EXCEPT !.serialDeviceNumber = 12],
          warnings |-> warnings]
    ELSE [settings |-> settings, warnings |-> warnings]

\* fixSettings keeping one channel more than the device has
TruncateChannelsOneMore(settings) ==
    IF Len(settings.channelSettings) > servoCount
    THEN [settings |-> [settings EXCEPT
                          !.channelSettings = SubSeq(@, 1, servoCount + 1)],
          warnings |-> << "TooManyChannels" >>]
    ELSE [settings |-> settings, warnings |-> << >>]

\* fixSettings, lines 563-567: the extra channel settings are dropped
TruncateChannels(settings) ==
    IF Len(settings.channelSettings) > servoCount
    THEN [settings |-> [settings EXCEPT
                          !.channelSettings = SubSeq(@, 1, servoCount)],
          warnings |-> << "TooManyChannels" >>]
    ELSE [settings |-> settings, warnings |-> << >>]

RECURSIVE PadChannels(_, _)
\* fixSettings, lines 574-578: the "while" loop that appends channels
PadChannels(channelSettings, servosAvailable) ==
    IF Len(channelSettings) >= servoCount THEN channelSettings
    ELSE LET cs == IF microMaestro /\ servosAvailable <= Len(channelSettings)
                   THEN [DefaultChannelSetting EXCEPT !.mode = Input]
                   ELSE DefaultChannelSetting
         IN  PadChannels(Append(channelSettings, cs), servosAvailable)

\* fixSettings, lines 569-578: the missing channel settings are appended
PadSettings(settings, warnings) ==
    IF Len(settings.channelSettings) < servoCount
    THEN [settings |-> [settings EXCEPT
                          !.channelSettings = PadChannels(@, settings.servosAvailable)],
          warnings |-> Append(warnings, "TooFewChannels")]
    ELSE [settings |-> settings, warnings |-> warnings]

\* the normalisation that leaves the home mode of an Input as it is
NormaliseChannelKeepsHomeMode(cs) ==
    IF cs.mode = Input
    THEN [cs EXCEPT !.minimum = 0, !.maximum = 1024,
                    !.speed = 0, !.acceleration = 0, !.neutral = 1024,
                    !.range = 1905]
    ELSE IF cs.mode = Output
    THEN [cs EXCEPT !.minimum = 3986, !.maximum = 8000, !.speed = 0,
                    !.acceleration = 0, !.neutral = 6000, !.range = 1905]
    ELSE cs

\* fixSettings, lines 580-595: the fields an Input or an Output has no use
\* for are set to fixed values
NormaliseChannel(cs) ==
    IF cs.mode = Input
    THEN [cs EXCEPT !.homeMode = Ignore, !.minimum = 0, !.maximum = 1024,
                    !.speed = 0, !.acceleration = 0, !.neutral = 1024,
                    !.range = 1905]
    ELSE IF cs.mode = Output
    THEN [cs EXCEPT !.minimum = 3986, !.maximum = 8000, !.speed = 0,
                    !.acceleration = 0, !.neutral = 6000, !.range = 1905]
    ELSE cs

\* fixSettings, lines 597-599: the serial device number
FixDeviceNumber(settings, warnings) ==
    IF settings.serialDeviceNumber >= 128
    THEN [settings |-> [settings EXCEPT !.serialDeviceNumber = 12],
          warnings |-> Append(warnings, "SerialDeviceNumber")]
    ELSE [settings |-> settings, warnings |-> warnings]

\* Usc.fixSettings: the settings as it leaves them and the warnings it
\* returns, each named by what it is about
FixSettings(settings) ==
    LET truncated == TruncateChannels(settings)
        padded == PadSettings(truncated.settings, truncated.warnings)
        normalised == [padded.settings EXCEPT
                          !.channelSettings =
                              [i \in 1 .. Len(@) |-> NormaliseChannel(@[i])]]
    IN  FixDeviceNumber(normalised, padded.warnings)

\* the serial device numbers of the settings given to fixSettings
DeviceNumbers == {0, 12, 127, 128, 200, 255}

\* the settings given to fixSettings: n channels that run through the four
\* modes and the three home modes, are told apart by their home, and have
\* each their own limits, neutral, range, speed and acceleration
FixInput(n, first, deviceNumber, available) ==
    [DefaultSettings EXCEPT
        !.serialDeviceNumber = deviceNumber,
        !.servosAvailable = available,
        !.channelSettings =
            [i \in 1 .. n |->
                [mode |-> (first + i - 1) % 4,
                 homeMode |-> i % 3,
                 home |-> 6000 + i,
                 minimum |-> 3968 - 64 * i,
                 maximum |-> 8000 + 64 * i,
                 neutral |-> 6000 - i,
                 range |-> 1905 - 127 * (i % 8),
                 speed |-> i,
                 acceleration |-> 2 * i]]]

\* the lengths of the channel list given to fixSettings
FixLengths ==
    {0} \cup {n \in (servoCount - ChannelSlack) .. (servoCount + ChannelSlack) : n >= 0}

\* a call of fixSettings(settings)
CallFixSettings ==
    /\ pc = "idle"
    /\ \E n \in FixLengths, first \in {Servo, ServoMultiplied, Output, Input},
          deviceNumber \in DeviceNumbers, available \in {0, 5, 6} :
          LET settings == FixInput(n, first, deviceNumber, available)
              r == FixSettings(settings)
          IN  /\ arg' = [settings |-> settings]
              /\ result' = r
    /\ op' = "fixSettings"
    /\ pc' = "done"
    /\ UNCHANGED <<servoCount, params, transfers, slept, err>>

NextFix == CallFixSettings

SpecFix == Init /\ [][NextFix]_vars

----------------------------------------------------------------------------
(* C13, C14: fixSettings.                                                  *)

\* the settings fixSettings was given, and what it made of them
FixedFrom == arg.settings.channelSettings

FixedTo == result.settings.channelSettings

\* fixSettings leaves exactly servoCount channel settings, the first
\* min(len, servoCount) of them the ones it was given, in order
FixedChannels ==
    /\ Len(FixedTo) = servoCount
    /\ \A i \in 1 .. Min(Len(FixedFrom), servoCount) :
          /\ FixedTo[i].mode = FixedFrom[i].mode
          /\ FixedTo[i].home = FixedFrom[i].home

\* the elements of a sequence
Elements(seq) == {seq[i] : i \in 1 .. Len(seq)}

\* C13 as claimed: fixSettings leaves exactly servoCount channel settings,
\* the first min(len, servoCount) being the given ones in order, and returns
\* a non-empty list of warnings iff the given length differed from
\* servoCount.
C13_WarningsIffLengthDiffers ==
    op = "fixSettings" =>
        /\ FixedChannels
        /\ result.warnings # << >> <=> Len(FixedFrom) # servoCount

\* C13: fixSettings leaves exactly servoCount channel settings, the first
\* min(len, servoCount) being the given ones in order; it returns a warning
\* about the number of channels iff the given length differed from
\* servoCount, and any warning at all iff the length differed or the serial
\* device number was 128 or more.
C13_FixSettings ==
    op = "fixSettings" =>
        /\ FixedChannels
        /\ (\E w \in Elements(result.warnings) :
                w \in {"TooManyChannels", "TooFewChannels"})
              <=> Len(FixedFrom) # servoCount
        /\ result.warnings # << >>
              <=> (Len(FixedFrom) # servoCount
                   \/ arg.settings.serialDeviceNumber >= 128)

\* fixSettings has cut a list of servoCount + 1 channel settings down to
\* servoCount and warned about nothing else
C13_Witness ==
    /\ op = "fixSettings"
    /\ Len(FixedFrom) = servoCount + 1
    /\ Len(FixedTo) = servoCount
    /\ FixedTo[servoCount].home = FixedFrom[servoCount].home
    /\ result.warnings = << "TooManyChannels" >>

\* C14: fixSettings sets a serial device number of 128 or more to 12 and
\* returns exactly one warning about it; it leaves a smaller one as it is
\* and returns no warning about it; afterwards the number is in 0 .. 127.
C14_DeviceNumber ==
    op = "fixSettings" =>
        LET given == arg.settings.serialDeviceNumber
            about == {i \in 1 .. Len(result.warnings) :
                         result.warnings[i] = "SerialDeviceNumber"}
        IN  /\ given >= 128 =>
                  (result.settings.serialDeviceNumber = 12 /\ Cardinality(about) = 1)
            /\ given < 128 =>
                  (result.settings.serialDeviceNumber = given /\ about = {})
            /\ result.settings.serialDeviceNumber \in 0 .. 127

\* fixSettings has set the serial device number 200 to 12 and returned one
\* warning, on a list of channels of the right length
C14_Witness ==
    /\ op = "fixSettings"
    /\ arg.settings.serialDeviceNumber = 200
    /\ Len(FixedFrom) = servoCount
    /\ result.settings.serialDeviceNumber = 12
    /\ result.warnings = << "SerialDeviceNumber" >>

----------------------------------------------------------------------------
(* The parameter table and the baud-rate conversions as operations.        *)

\* a call of getRange(parameterId)
CallGetRange ==
    /\ pc = "idle"
    /\ \E parameterId \in 0 .. MaxParameterId :
          /\ arg' = [parameterId |-> parameterId]
          /\ result' = getRange(parameterId)
          /\ err' = getRange(parameterId).err
    /\ op' = "getRange"
    /\ pc' = "done"
    /\ UNCHANGED <<servoCount, params, transfers, slept>>

\* the baud rates in use, and those around the ends of the conversion
BaudRates ==
    0 .. MaxLowBps
    \cup {300, 1200, 2400, 4800, 9600, 19200, 38400, 57600, 115200, 200000,
          250000, 8000000, 16000000, 23999999, 24000000, 24000001, 1000000000}

\* a call of _convertBpsToSpbrg(bps)
CallConvertBpsToSpbrg ==
    /\ pc = "idle"
    /\ \E bps \in BaudRates :
          /\ arg' = [bps |-> bps]
          /\ result' = ConvertBpsToSpbrg(bps)
    /\ op' = "convertBpsToSpbrg"
    /\ pc' = "done"
    /\ UNCHANGED <<servoCount, params, transfers, slept, err>>

\* the values of the baud-rate register
SpbrgValues == 0 .. MaxLowSpbrg \cup {103, 1249, 39999, 65535}

\* a call of _convertSpbrgToBps(spbrg)
CallConvertSpbrgToBps ==
    /\ pc = "idle"
    /\ \E spbrg \in SpbrgValues :
          /\ arg' = [spbrg |-> spbrg]
          /\ result' = ConvertSpbrgToBps(spbrg)
    /\ op' = "convertSpbrgToBps"
    /\ pc' = "done"
    /\ UNCHANGED <<servoCount, params, transfers, slept, err>>

\* the parameters of channel 0 that each channel has
ServoParameters ==
    {PARAMETER_SERVO0_HOME, PARAMETER_SERVO0_MIN, PARAMETER_SERVO0_MAX,
     PARAMETER_SERVO0_NEUTRAL, PARAMETER_SERVO0_RANGE, PARAMETER_SERVO0_SPEED,
     PARAMETER_SERVO0_ACCELERATION}

\* a call of specifyServo(p, servo)
CallSpecifyServo ==
    /\ pc = "idle"
    /\ \E p \in ServoParameters, servo \in 0 .. MaxServo :
          /\ arg' = [p |-> p, servo |-> servo]
          /\ result' = specifyServo(p, servo)
    /\ op' = "specifyServo"
    /\ pc' = "done"
    /\ UNCHANGED <<servoCount, params, transfers, slept, err>>

NextTable ==
    \/ CallGetRange
    \/ CallConvertBpsToSpbrg
    \/ CallConvertSpbrgToBps
    \/ CallSpecifyServo

SpecTable == Init /\ [][NextTable]_vars

\* the ids of the device-wide parameters of uscParameter
DeviceWideIds ==
    {PARAMETER_INITIALIZED, PARAMETER_SERVOS_AVAILABLE, PARAMETER_SERVO_PERIOD,
     PARAMETER_SERIAL_MODE, PARAMETER_SERIAL_FIXED_BAUD_RATE,
     PARAMETER_SERIAL_TIMEOUT, PARAMETER_SERIAL_ENABLE_CRC,
     PARAMETER_SERIAL_NEVER_SUSPEND, PARAMETER_SERIAL_DEVICE_NUMBER,
     PARAMETER_SERIAL_BAUD_DETECT_TYPE, PARAMETER_IO_MASK_C,
     PARAMETER_OUTPUT_MASK_C, PARAMETER_CHANNEL_MODES_0_3,
     PARAMETER_CHANNEL_MODES_4_7, PARAMETER_CHANNEL_MODES_8_11,
     PARAMETER_CHANNEL_MODES_12_15, PARAMETER_CHANNEL_MODES_16_19,
     PARAMETER_CHANNEL_MODES_20_23, PARAMETER_MINI_MAESTRO_SERVO_PERIOD_L,
     PARAMETER_MINI_MAESTRO_SERVO_PERIOD_HU, PARAMETER_ENABLE_PULLUPS,
     PARAMETER_SCRIPT_CRC, PARAMETER_SCRIPT_DONE,
     PARAMETER_SERIAL_MINI_SSC_OFFSET, PARAMETER_SERVO_MULTIPLIER}

\* the ids of the seven parameters of each of the channels 0 .. 23
ChannelIds ==
    {base + servoParameterBytes * channel :
        base \in {PARAMETER_SERVO0_HOME, PARAMETER_SERVO0_MIN, PARAMETER_SERVO0_MAX,
                  PARAMETER_SERVO0_NEUTRAL, PARAMETER_SERVO0_RANGE,
                  PARAMETER_SERVO0_SPEED, PARAMETER_SERVO0_ACCELERATION},
        channel \in 0 .. 23}

\* C15: getRange fails with the unknown-parameter error for every id that
\* is neither a device-wide parameter nor one of the seven parameters of a
\* channel 0 .. 23, and returns a range only for the ids of the table.
C15_UnknownIdsFail ==
    op = "getRange" =>
        (err = "none" <=> arg.parameterId \in DeviceWideIds \cup ChannelIds)

\* C17 as claimed: for bps # 0 _convertBpsToSpbrg returns
\* (12000000 - bps/2) / bps rounded to the nearest integer, that is, an
\* integer no more than 1/2 away from it; for bps = 0 it returns 0, and
\* _convertSpbrgToBps returns 0 for 0.
C17_RoundedToNearest ==
    /\ (op = "convertBpsToSpbrg" /\ arg.bps # 0) =>
          LET twiceGap == 2 * arg.bps * result - (2 * 12000000 - arg.bps)
          IN  twiceGap <= arg.bps /\ 0 - twiceGap <= arg.bps
    /\ (op = "convertBpsToSpbrg" /\ arg.bps = 0) => result = 0
    /\ (op = "convertSpbrgToBps" /\ arg.spbrg = 0) => result = 0

\* C17: for bps # 0 _convertBpsToSpbrg returns (12000000 - bps/2) / bps
\* with its fraction dropped: the largest integer not above it while it is
\* not negative (bps <= 24000000), the smallest not below it otherwise; for
\* bps = 0 it returns 0, and _convertSpbrgToBps returns 0 for 0.
C17_Truncated ==
    /\ (op = "convertBpsToSpbrg" /\ arg.bps # 0) =>
          LET twiceExact == 2 * 12000000 - arg.bps
              twiceBps == 2 * arg.bps
          IN  IF twiceExact >= 0
              THEN /\ twiceBps * result <= twiceExact
                   /\ twiceExact - twiceBps * result < twiceBps
              ELSE /\ twiceBps * result >= twiceExact
                   /\ twiceBps * result - twiceExact < twiceBps
    /\ (op = "convertBpsToSpbrg" /\ arg.bps = 0) => result = 0
    /\ (op = "convertSpbrgToBps" /\ arg.spbrg = 0) => result = 0

\* 115200 baud has been converted to 103, the value below
\* 12000000 / 115200 - 1/2 = 103.67
C17_Witness ==
    /\ op = "convertBpsToSpbrg"
    /\ arg.bps = 115200
    /\ result = 103

----------------------------------------------------------------------------
(* The status reads, the restarts of the script and the reinitializations. *)

\* ServoStatus.struct.size, of '<HHHB'
ServoStatusSize == 7

\* MicroMaestroVariables.struct.size, of '<BBH3h32h10HBB'
MicroMaestroVariablesSize == 96

MiniMaestroStackSize == 126

MiniMaestroCallStackSize == 126

\* the "out" arguments getVariables knows
KnownOutputs == {"variables", "servos", "stack", "callStack"}

\* Usc._getVariableMicroMaestro and the choice getVariables makes from what
\* it returns: unpacking raises when a slice of the buffer is too short
GetVariablesMicro(out, received) ==
    LET size == MicroMaestroVariablesSize + servoCount * ServoStatusSize
        read == <<TransferIn(REQUEST_GET_VARIABLES, 0, 0, size, received)>>
    IN  IF received < size
        THEN [transfers |-> read, err |-> "StructError", value |-> NoValue]
        ELSE IF out \notin KnownOutputs
        THEN [transfers |-> read, err |-> "UnknownOutput", value |-> NoValue]
        ELSE [transfers |-> read, err |-> "none",
              value |-> [kind |-> out,
                         bytes |-> IF out = "servos" THEN servoCount * ServoStatusSize
                                   ELSE MicroMaestroVariablesSize]]

\* Usc._getVariableMiniMaestro(out), the device answering with received
\* bytes: the value is what is returned, of so many bytes
GetVariablesMiniOut(out, received) ==
    IF out = "variables"
    THEN [transfers |-> GetVariablesMini(received).transfers,
          err |-> GetVariablesMini(received).err,
          value |-> IF GetVariablesMini(received).err = "none"
                    THEN [kind |-> out, bytes |-> received] ELSE NoValue]
    ELSE IF out = "servos"
    THEN LET size == servoCount * ServoStatusSize
             read == <<TransferIn(REQUEST_GET_SERVO_SETTINGS, 0, 0, size, received)>>
         IN  IF received # ServoStatusSize * servoCount
             THEN [transfers |-> read, err |-> "ShortRead", value |-> NoValue]
             ELSE [transfers |-> read, err |-> "none",
                   value |-> [kind |-> out, bytes |-> received]]
    ELSE IF out = "stack"
    THEN [transfers |-> <<TransferIn(REQUEST_GET_STACK, 0, 0,
                                     2 * MiniMaestroStackSize, received)>>,
          err |-> "none", value |-> [kind |-> out, bytes |-> received]]
    ELSE IF out = "callStack"
    THEN [transfers |-> <<TransferIn(REQUEST_GET_CALL_STACK, 0, 0,
                                     2 * MiniMaestroCallStackSize, received)>>,
          err |-> "none", value |-> [kind |-> out, bytes |-> received]]
    ELSE [transfers |-> << >>, err |-> "UnknownOutput", value |-> NoValue]

\* Usc.getVariables
GetVariables(out, received) ==
    IF microMaestro THEN GetVariablesMicro(out, received)
    ELSE GetVariablesMiniOut(out, received)

\* the number of bytes getVariables(out) asks the device for
ExpectedSize(out) ==
    IF microMaestro THEN MicroMaestroVariablesSize + servoCount * ServoStatusSize
    ELSE IF out = "variables" THEN MiniMaestroVariablesSize
    ELSE IF out = "servos" THEN servoCount * ServoStatusSize
    ELSE IF out = "stack" THEN 2 * MiniMaestroStackSize
    ELSE 2 * MiniMaestroCallStackSize

\* a call of getVariables(out)
CallGetVariables ==
    /\ pc = "idle"
    /\ \E out \in KnownOutputs \cup {"other"}, d \in (0 - ReadSlack) .. ReadSlack :
          LET r == GetVariables(out, ExpectedSize(out) + d)
          IN  /\ arg' = [out |-> out, received |-> ExpectedSize(out) + d]
              /\ transfers' = r.transfers
              /\ err' = r.err
              /\ result' = r.value
    /\ op' = "getVariables"
    /\ pc' = "done"
    /\ UNCHANGED <<servoCount, params, slept>>

\* a call of restartScriptAtSubroutine(subroutine): the subroutine is the
\* fifth argument of ctrl_transfer, where the data of the transfer goes
CallRestartScriptAtSubroutine ==
    /\ pc = "idle"
    /\ \E subroutine \in SubroutineAddresses :
          /\ arg' = [subroutine |-> subroutine]
          /\ transfers' = << [bmRequestType |-> 64,
                              bRequest |-> REQUEST_RESTART_SCRIPT_AT_SUBROUTINE,
                              wValue |-> 0, wIndex |-> 0, data |-> subroutine,
                              wLength |-> 0, received |-> 0] >>
    /\ err' = "none"
    /\ op' = "restartScriptAtSubroutine"
    /\ pc' = "done"
    /\ UNCHANGED <<servoCount, params, slept, result>>

\* the parameters a script is restarted with
RestartParameters == {0, 1, 16383}

\* a call of restartScriptAtSubroutineWithParameter(subroutine, parameter):
\* uscRequest has no member REQUEST_ERASE_SCRIPT_WITH_PARAMETER, so looking
\* it up raises before ctrl_transfer is called
CallRestartScriptAtSubroutineWithParameter ==
    /\ pc = "idle"
    /\ \E subroutine \in SubroutineAddresses, parameter \in RestartParameters :
          arg' = [subroutine |-> subroutine, parameter |-> parameter]
    /\ transfers' = << >>
    /\ err' = "AttributeError"
    /\ op' = "restartScriptAtSubroutineWithParameter"
    /\ pc' = "done"
    /\ UNCHANGED <<servoCount, params, slept, result>>

\* a call of reinitalize()
CallReinitalize ==
    /\ pc = "idle"
    /\ \E received \in (IF microMaestro THEN {MiniMaestroVariablesSize}
                        ELSE VariablesReplies) :
          LET r == Reinitialize(50, received)
          IN  /\ arg' = [received |-> received]
              /\ transfers' = r.transfers
              /\ err' = r.err
              /\ slept' = r.slept
    /\ op' = "reinitalize"
    /\ pc' = "done"
    /\ UNCHANGED <<servoCount, params, result>>

\* Usc.restoreDefaultConfiguration
RestoreDefaultConfiguration(received) ==
    LET first == << SetRawParameterNoChecks(PARAMETER_INITIALIZED, 255, 1) >>
        reinit == Reinitialize(1500, received)
    IN  [transfers |-> first \o reinit.transfers, err |-> reinit.err,
         slept |-> reinit.slept]

\* a call of restoreDefaultConfiguration()
CallRestoreDefaultConfiguration ==
    /\ pc = "idle"
    /\ \E received \in (IF microMaestro THEN {MiniMaestroVariablesSize}
                        ELSE VariablesReplies) :
          LET r == RestoreDefaultConfiguration(received)
          IN  /\ arg' = [received |-> received]
              /\ transfers' = r.transfers
              /\ params' = DeviceAfter(params, r.transfers)
              /\ err' = r.err
              /\ slept' = r.slept
    /\ op' = "restoreDefaultConfiguration"
    /\ pc' = "done"
    /\ UNCHANGED <<servoCount, result>>

\* a call of loadProgram with a short program
CallLoadShortProgram ==
    \E CRC \in BOOLEAN, t \in SubroutineTablesOf(1),
       received \in (IF microMaestro THEN {MiniMaestroVariablesSize}
                     ELSE VariablesReplies) :
        LoadProgramCall(ShortProgram(17, t), CRC, received)

NextDevice ==
    \/ CallGetVariables
    \/ CallRestartScriptAtSubroutine
    \/ CallRestartScriptAtSubroutineWithParameter
    \/ CallReinitalize
    \/ CallRestoreDefaultConfiguration
    \/ CallLoadShortProgram

SpecDevice == Init /\ [][NextDevice]_vars

----------------------------------------------------------------------------
(* C16, C18, C19: the status reads, reinitializations and restarts.        *)

\* C16: on a Mini Maestro each of the four reads of getVariables fails with
\* the short-read error, and returns nothing, when the device answers with
\* a buffer of another length than the fixed size of the read.
C16_WrongLengthFails ==
    (op = "getVariables" /\ ~microMaestro /\ arg.out \in KnownOutputs
        /\ arg.received # ExpectedSize(arg.out)) =>
        (err = "ShortRead" /\ result = NoValue)

\* the positions in transfers of the transfers with a request code
TransfersOf(request) ==
    {k \in 1 .. Len(transfers) : transfers[k].bRequest = request}

\* the settle delay of an operation that reinitializes, in milliseconds
SettleDelay ==
    IF op = "reinitalize" THEN 50
    ELSE IF op = "loadProgram" THEN 100
    ELSE 1500

\* C18: an operation that reinitializes issues REINITIALIZE once; on a Mini
\* Maestro exactly one read of the variables follows it, and nothing else,
\* on a Micro Maestro nothing follows it and no read of the variables is
\* issued at all; the operation returns only after it has slept for its
\* settle delay (50 ms, 100 ms after a script upload, 1500 ms after
\* restoreDefaultConfiguration), and has not slept when it fails.
C18_Reinitialize ==
    (op \in {"reinitalize", "loadProgram", "restoreDefaultConfiguration"}
        /\ err \in {"none", "ShortRead"}) =>
        LET n == Len(transfers)
        IN  /\ Cardinality(TransfersOf(REQUEST_REINITIALIZE)) = 1
            /\ microMaestro =>
                  /\ TransfersOf(REQUEST_REINITIALIZE) = {n}
                  /\ TransfersOf(REQUEST_GET_VARIABLES) = {}
            /\ ~microMaestro =>
                  /\ TransfersOf(REQUEST_REINITIALIZE) = {n - 1}
                  /\ TransfersOf(REQUEST_GET_VARIABLES) = {n}
                  /\ transfers[n].bmRequestType = 192
                  /\ transfers[n].wLength = MiniMaestroVariablesSize
            /\ op = "reinitalize" => TransfersOf(REQUEST_REINITIALIZE) = {1}
            /\ err = "none" => slept = SettleDelay
            /\ err = "ShortRead" => slept = 0

\* restoreDefaultConfiguration has returned on a Mini Maestro after
\* REINITIALIZE, one read of the variables and 1500 ms
C18_Witness ==
    /\ op = "restoreDefaultConfiguration"
    /\ ~microMaestro
    /\ err = "none"
    /\ Len(transfers) = 3
    /\ transfers[2].bRequest = REQUEST_REINITIALIZE
    /\ transfers[3].bRequest = REQUEST_GET_VARIABLES
    /\ slept = 1500

\* C19: restartScriptAtSubroutine issues exactly one control transfer OUT
\* with request 0xA3 and restartScriptAtSubroutineWithParameter exactly one
\* control transfer OUT with request 0xA4 that carries the parameter and
\* the address, and both return without an error.
C19_RestartTransfers ==
    /\ op = "restartScriptAtSubroutine" =>
          /\ err = "none"
          /\ Len(transfers) = 1
          /\ transfers[1].bmRequestType = 64
          /\ transfers[1].bRequest = REQUEST_RESTART_SCRIPT_AT_SUBROUTINE
    /\ op = "restartScriptAtSubroutineWithParameter" =>
          /\ err = "none"
          /\ Len(transfers) = 1
          /\ transfers[1].bmRequestType = 64
          /\ transfers[1].bRequest = REQUEST_RESTART_SCRIPT_AT_SUBROUTINE_WITH_PARAMETER
          /\ transfers[1].wValue = arg.parameter
          /\ transfers[1].wIndex = arg.subroutine

\* C20: whenever setUscSettings has issued a control transfer, the list of
\* channel settings it was given has servoCount entries, and the write does
\* not fail on that list once transfers have been issued.
C20_ReconciledBeforeWrite ==
    (op = "setUscSettings" /\ transfers # <<>>) =>
        /\ Len(arg.settings.channelSettings) = servoCount
        /\ err # "IndexError"

----------------------------------------------------------------------------
(* C21, C25: the order and the regions of a script upload.                 *)

\* the positions in transfers of the writes of the checksum parameter
ChecksumWrites ==
    {k \in TransfersOf(REQUEST_SET_PARAMETER) :
        transfers[k].wIndex % 256 = PARAMETER_SCRIPT_CRC}

\* C21: in a loadProgram that returns without error exactly one
\* ERASE_SCRIPT is issued, before every WRITE_SCRIPT; SET_PARAMETER is
\* issued if and only if CRC is requested, then once, for
\* PARAMETER_SCRIPT_CRC with two bytes and the checksum of the program,
\* after every WRITE_SCRIPT; exactly one REINITIALIZE is issued, after every
\* WRITE_SCRIPT and after the write of the checksum.
C21_UploadOrder ==
    (op = "loadProgram" /\ err = "none") =>
        LET erases == TransfersOf(REQUEST_ERASE_SCRIPT)
            writes == TransfersOf(REQUEST_WRITE_SCRIPT)
            sets == TransfersOf(REQUEST_SET_PARAMETER)
            reinits == TransfersOf(REQUEST_REINITIALIZE)
        IN  /\ Cardinality(erases) = 1
            /\ \A e \in erases, w \in writes : e < w
            /\ sets = ChecksumWrites
            /\ Cardinality(sets) = IF arg.CRC THEN 1 ELSE 0
            /\ \A c \in sets :
                  /\ transfers[c].wIndex = 2 * 256 + PARAMETER_SCRIPT_CRC
                  /\ transfers[c].wValue = arg.program.crc
                  /\ \A w \in writes : w < c
            /\ Cardinality(reinits) = 1
            /\ \A r \in reinits :
                  /\ \A w \in writes : w < r
                  /\ \A c \in sets : c < r

\* a program with byte code and a subroutine has been uploaded with its
\* checksum
C21_Witness ==
    /\ op = "loadProgram"
    /\ err = "none"
    /\ arg.CRC
    /\ Len(arg.program.byteList) > 0
    /\ Cardinality(TransfersOf(REQUEST_WRITE_SCRIPT)) > 16
    /\ Cardinality(ChecksumWrites) = 1

\* the WRITE_SCRIPT transfers of the operation, in the order of issue
ScriptWrites == SelectSeq(transfers, IsWriteScript)

\* C25: in a loadProgram that returns without error the subroutine table is
\* written as exactly sixteen WRITE_SCRIPT blocks, with the indexes
\* subroutineOffsetBlocks .. subroutineOffsetBlocks + 15 (64..79 on the Micro
\* Maestro, 512..527 on the Mini Maestro); every block of byte code, the one
\* with the terminator included, has an index below subroutineOffsetBlocks;
\* no block index is written twice.
C25_RegionsDisjoint ==
    (op = "loadProgram" /\ err = "none") =>
        LET writes == ScriptWrites
            offset == IF microMaestro THEN 64 ELSE 512
        IN  /\ subroutineOffsetBlocks = offset
            /\ Len(writes) >= 16
            /\ \A b \in 1 .. 16 : writes[b].wIndex = offset + (b - 1)
            /\ \A b \in 17 .. Len(writes) :
                  /\ writes[b].wIndex >= 0
                  /\ writes[b].wIndex < offset
            /\ Len(writes) - 16 =
                  BlocksOf(Len(arg.program.byteList)
                           + IF Len(arg.program.byteList) < maxScriptLength
                             THEN 1 ELSE 0)
            /\ \A a, b \in 1 .. Len(writes) :
                  a # b => writes[a].wIndex # writes[b].wIndex

\* a program of maxScriptLength bytes has been uploaded: its last block is
\* the one below the subroutine table
C25_Witness ==
    /\ op = "loadProgram"
    /\ err = "none"
    /\ Len(arg.program.byteList) = maxScriptLength
    /\ Len(ScriptWrites) = 16 + subroutineOffsetBlocks
    /\ ScriptWrites[Len(ScriptWrites)].wIndex = subroutineOffsetBlocks - 1
    /\ ScriptWrites[1].wIndex = subroutineOffsetBlocks

----------------------------------------------------------------------------
(* C22: the values fixSettings gives to the channels of a mode.            *)

\* minimum, maximum, speed, acceleration, neutral and range of a channel
SixFields(cs) ==
    <<cs.minimum, cs.maximum, cs.speed, cs.acceleration, cs.neutral, cs.range>>

\* C22: after fixSettings every channel in mode Input has homeMode Ignore
\* and minimum 0, maximum 1024, speed 0, acceleration 0, neutral 1024, range
\* 1905; every channel in mode Output has minimum 3986, maximum 8000, speed
\* 0, acceleration 0, neutral 6000, range 1905 and the homeMode and home it
\* was given; every channel in mode Servo or ServoMultiplied that was given
\* and is kept has all its fields as given. None of this depends on the
\* variant or on the values before.
C22_ModeDefaults ==
    op = "fixSettings" =>
        \A i \in 1 .. Len(FixedTo) :
            LET cs == FixedTo[i]
                given == i <= Len(FixedFrom)
            IN  /\ cs.mode = Input =>
                      /\ cs.homeMode = Ignore
                      /\ SixFields(cs) = <<0, 1024, 0, 0, 1024, 1905>>
                /\ cs.mode = Output =>
                      /\ SixFields(cs) = <<3986, 8000, 0, 0, 6000, 1905>>
                      /\ given
                      /\ cs.homeMode = FixedFrom[i].homeMode
                      /\ cs.home = FixedFrom[i].home
                /\ (cs.mode \in {Servo, ServoMultiplied} /\ given) =>
                      cs = FixedFrom[i]

\* fixSettings was given an Input with home mode Goto, an Output and a
\* Servo, none of them with the values of its mode, and has set the first
\* two to them and kept the third
C22_Witness ==
    /\ op = "fixSettings"
    /\ \E i, j, k \in 1 .. Min(Len(FixedFrom), servoCount) :
          /\ FixedFrom[i].mode = Input
          /\ FixedFrom[i].homeMode = Goto
          /\ SixFields(FixedFrom[i]) # SixFields(FixedTo[i])
          /\ FixedTo[i].homeMode = Ignore
          /\ FixedFrom[j].mode = Output
          /\ FixedFrom[j].homeMode # Off
          /\ SixFields(FixedFrom[j]) # SixFields(FixedTo[j])
          /\ FixedTo[j].minimum = 3986
          /\ FixedFrom[k].mode = Servo
          /\ SixFields(FixedFrom[k]) # SixFields(DefaultChannelSetting)
          /\ FixedTo[k] = FixedFrom[k]

----------------------------------------------------------------------------
(* C23: a read of the settings after a write of them.                      *)

\* the channel setting has limits, range and speed the device holds exactly
HeldExactly(setting) ==
    /\ setting.minimum % 64 = 0
    /\ setting.maximum % 64 = 0
    /\ setting.range % 127 = 0
    /\ \E mantissa \in 0 .. 31, exponent \in 0 .. 7 :
          setting.speed = mantissa * Pow2(exponent)

\* getUscSettings has run after a setUscSettings that returned, for
\* settings with servoCount channel settings
ReadAfterWrite ==
    /\ op = "getUscSettings"
    /\ arg # NoValue
    /\ Len(arg.settings.channelSettings) = servoCount

\* the read returned the limits, neutral, range, speed and acceleration
\* that were written for channel i
ScalarsReturned(i) ==
    LET written == arg.settings.channelSettings[i]
        read == result.channelSettings[i]
    IN  /\ read.minimum = written.minimum
        /\ read.maximum = written.maximum
        /\ read.neutral = written.neutral
        /\ read.range = written.range
        /\ read.speed = written.speed
        /\ read.acceleration = written.acceleration

\* C23 as claimed: getUscSettings after a setUscSettings that returned, on a
\* device that keeps what is written, returns servoCount channels, each with
\* the mode, minimum, maximum, neutral, range, speed and acceleration that
\* were written, when minimum and maximum are multiples of 64, range is one
\* of 127 and speed is mantissa * 2^exponent; on either variant.
C23_RoundTripAsClaimed ==
    ReadAfterWrite =>
        /\ Len(result.channelSettings) = servoCount
        /\ \A i \in 1 .. servoCount :
              HeldExactly(arg.settings.channelSettings[i]) =>
                  /\ result.channelSettings[i].mode =
                        arg.settings.channelSettings[i].mode
                  /\ ScalarsReturned(i)

\* C23: as above, but on the Micro Maestro a channel written as
\* ServoMultiplied is read as Servo; every other mode there, and every mode
\* on a Mini Maestro, is read as it was written.
C23_RoundTrip ==
    ReadAfterWrite =>
        /\ Len(result.channelSettings) = servoCount
        /\ \A i \in 1 .. servoCount :
              HeldExactly(arg.settings.channelSettings[i]) =>
                  /\ result.channelSettings[i].mode =
                        IF microMaestro
                           /\ arg.settings.channelSettings[i].mode = ServoMultiplied
                        THEN Servo
                        ELSE arg.settings.channelSettings[i].mode
                  /\ ScalarsReturned(i)

\* a Micro Maestro has read back channels that were written each with its
\* own values, the second as ServoMultiplied and the third as Output
C23_Witness ==
    /\ ReadAfterWrite
    /\ microMaestro
    /\ \A i \in 1 .. servoCount : HeldExactly(arg.settings.channelSettings[i])
    /\ arg.settings.channelSettings[2].mode = ServoMultiplied
    /\ arg.settings.channelSettings[2].speed = 64
    /\ arg.settings.channelSettings[3].minimum = 192
    /\ result.channelSettings[2].mode = Servo
    /\ result.channelSettings[2].speed = 64
    /\ result.channelSettings[3].mode = Output
    /\ result.channelSettings[3].minimum = 192
    /\ result.channelSettings[6].range = 762

----------------------------------------------------------------------------
(* C24: the addresses of the parameters of the channels.                   *)

\* C24: for the seven parameters of a channel and the channels 0 .. 23 the
\* id specifyServo returns is p + 9 * servo; no two pairs of a parameter and
\* a channel have the same id (the pair is recovered from the id); the id
\* is in 30 .. 255, so it is no id of a device-wide parameter and the index
\* (numBytes << 8) + id of SET_PARAMETER holds it in its low byte and
\* numBytes above; getRange gives it the width and the range of p.
C24_ChannelAddressing ==
    (op = "specifyServo" /\ arg.servo \in 0 .. 23) =>
          LET index == SetRawParameterNoChecks(result, 0, getRange(result).bytes).wIndex
          IN  /\ result = arg.p + 9 * arg.servo
              /\ result \in 30 .. 255
              /\ (result - 30) \div 9 = arg.servo
              /\ 30 + ((result - 30) % 9) = arg.p
              /\ result \notin DeviceWideIds
              /\ getRange(result).err = "none"
              /\ getRange(result) = getRange(arg.p)
              /\ index % 256 = result
              /\ index \div 256 = getRange(arg.p).bytes
              /\ \A q \in ServoParameters, j \in 0 .. 23 :
                    specifyServo(q, j) = result => (q = arg.p /\ j = arg.servo)

\* specifyServo has returned 245 for the acceleration of channel 23, the
\* highest id of all
C24_Witness ==
    /\ op = "specifyServo"
    /\ arg.p = PARAMETER_SERVO0_ACCELERATION
    /\ arg.servo = 23
    /\ result = 245
    /\ getRange(result) = getRange(PARAMETER_SERVO0_ACCELERATION)

====
